---- MODULE Spec2Model ----
(***************************************************************************)
(* Concurrent Fibonacci calculator: four strategies over a shared          *)
(* sync.Pool of *big.Int cells, raced by main under a context deadline,     *)
(* with a progress printer and a result reconciler.                         *)
(*                                                                          *)
(* SpecCall : one strategy call at a time on a shared pool, as the tests    *)
(*            call them (fibFunc signature).                                *)
(* Spec     : the whole run of main (FairSpec: with the timer and the       *)
(*            printer's select fair).                                       *)
(* SpecCollect : collectAndDisplayResults on any results.                   *)
(* SpecMul  : one call of mat2.mul, receiver and operands aliased or not.   *)
(* SpecSelect : main's selection of the tasks from flag -algorithms.        *)
(***************************************************************************)
EXTENDS Integers, Sequences, FiniteSets, TLC

VARIABLES
    n,            \* the index, flag -n / test case n
    sink,         \* TRUE iff the progress argument is a channel (not nil)
    ctxErr,       \* ctx.Err(): "nil", "deadline" or "canceled"
    pc,           \* position of each strategy call / worker goroutine
    loc,          \* loop locals of each strategy (i, exp)
    slots,        \* the *big.Int variables of each strategy: slot -> cell id
    cellVal,      \* heap: content of every big.Int cell ever made by the pool
    inPool,       \* how many times each cell currently sits in the sync.Pool
    acq,          \* cells the current call took with pool.Get, in order
    rel,          \* cells the current call gave back with pool.Put, in order
    ret,          \* (value, error) returned by each strategy
    sent,         \* progress percentages each call has sent, in order
    progressCh,   \* buffered progress channel
    progClosed,   \* number of close(progressAggregatorCh) executed
    calls,        \* number of strategy calls started by the test harness
    hist,         \* the (strategy, *big.Int) pairs returned without error so far
    fl,           \* the big.Float variables of fibBinet
    algorithmsFlag, \* main: the value of flag -algorithms, field by field
    tasksToRun,   \* main: names of the selected tasks, in order
    mainPc,       \* main: position of the main goroutine
    wg,           \* main: counter of the workers' sync.WaitGroup
    resultsCh,    \* main: buffered channel of result{name, value, duration, err}
    resClosed,    \* number of close(resultsCh) executed
    printerPc,    \* position of the progressPrinter goroutine
    status,       \* progressPrinter: last percentage received per task
    results,      \* collectAndDisplayResults: the results, sorted
    verdict,      \* collectAndDisplayResults: what the cross-validation found
    applied,      \* progressPrinter: the percentages received per task, in order
    rendered,     \* progressPrinter: <<the status printed last>>, <<>> before
    expired       \* TRUE iff the run started with its deadline already passed

callVars == <<n, sink, ctxErr, pc, loc, slots, cellVal, inPool, acq, rel, ret,
              sent, progressCh, progClosed, calls, hist, fl>>

runVars == <<algorithmsFlag, tasksToRun, mainPc, wg, resultsCh, resClosed, printerPc, status,
             results, verdict, applied, rendered, expired>>

vars == <<callVars, runVars>>

----------------------------------------------------------------------------
(* Bounds of the model *)

\* indices run over -NegN .. MaxN in SpecCall
NegN == 1
MaxN == 20
\* strategy calls made one after another on one pool in SpecCall
MaxCalls == 2
\* indices run over 0 .. RunMaxN in Spec
RunMaxN == 3
\* a run of main selects between 1 and MaxTasks strategies
MaxTasks == 2
\* durations measured by the workers run over 1 .. MaxDur
MaxDur == 2
\* collectAndDisplayResults is given between 1 and CollectTasks results in
\* SpecCollect
CollectTasks == 3
\* values of the successful results run over 1 .. MaxVal in SpecCollect
MaxVal == 2

----------------------------------------------------------------------------
(* Names *)

FD == "Fast Doubling"
MX == "Matrix 2x2"
BN == "Binet"
IT == "Iterative"

Strategies == {FD, MX, BN, IT}
Exact == {FD, MX, IT}

----------------------------------------------------------------------------
(* The mathematical sequence the claims refer to: F(0)=0, F(1)=1,           *)
(* F(k)=F(k-1)+F(k-2).                                                      *)

RECURSIVE FibPair(_)
FibPair(k) ==
    IF k = 0 THEN <<0, 1>>
    ELSE LET p == FibPair(k - 1) IN <<p[2], p[1] + p[2]>>

Fib(k) == FibPair(k)[1]

----------------------------------------------------------------------------
(* Integer helpers *)

RECURSIVE Pow2(_)
Pow2(k) == IF k = 0 THEN 1 ELSE 2 * Pow2(k - 1)

\* bits.Len(uint(x)) for x >= 0
RECURSIVE BitLen(_)
BitLen(x) == IF x = 0 THEN 0 ELSE 1 + BitLen(x \div 2)

\* (uint(x) >> i) & 1
Bit(x, i) == (x \div Pow2(i)) % 2

RECURSIVE GCD(_, _)
GCD(x, y) == IF y = 0 THEN x ELSE GCD(y, x % y)

Min(S) == CHOOSE x \in S : \A y \in S : x <= y

RECURSIVE CountIn(_, _)
CountIn(s, x) ==
    IF s = <<>> THEN 0
    ELSE (IF Head(s) = x THEN 1 ELSE 0) + CountIn(Tail(s), x)

Range(s) == {s[k] : k \in 1..Len(s)}

----------------------------------------------------------------------------
(* Progress percentages.  (float64(k)/float64(total))*100.0 is kept as the  *)
(* exact fraction k/total in lowest terms, so 100.0 is <<1,1>>; float64     *)
(* rounding is monotone, so the order of two percentages is the order of    *)
(* their fractions.                                                         *)

Pct(k, total) == LET g == GCD(k, total) IN <<k \div g, total \div g>>
Pct100 == Pct(1, 1)
Pct0 == Pct(0, 1)
PctLeq(p, q) == p[1] * q[2] <= q[1] * p[2]

----------------------------------------------------------------------------
(* big.Int cells.  A content is <<v>> (the integer v) or <<>>: the content  *)
(* of a cell that comes out of the pool after an earlier use, which the     *)
(* taker cannot rely on.  Arithmetic on an unknown operand is unknown.      *)

Def(v) == <<v>>
Undef == <<>>
IsDef(x) == x # <<>>

BigAdd(x, y) == IF IsDef(x) /\ IsDef(y) THEN Def(x[1] + y[1]) ELSE Undef
BigSub(x, y) == IF IsDef(x) /\ IsDef(y) THEN Def(x[1] - y[1]) ELSE Undef
BigMul(x, y) == IF IsDef(x) /\ IsDef(y) THEN Def(x[1] * y[1]) ELSE Undef
BigLsh(x, k) == IF IsDef(x) THEN Def(x[1] * Pow2(k)) ELSE Undef

\* the heap h with content v in cell z
St(h, z, v) == [h EXCEPT ![z] = v]

\* z.Add(x, y), z.Sub(x, y), z.Mul(x, y), z.Lsh(x, k), z.Set(x) on heap h
ZAdd(h, z, x, y) == St(h, z, BigAdd(h[x], h[y]))
ZSub(h, z, x, y) == St(h, z, BigSub(h[x], h[y]))
ZMul(h, z, x, y) == St(h, z, BigMul(h[x], h[y]))
ZLsh(h, z, x, k) == St(h, z, BigLsh(h[x], k))
ZSet(h, z, x) == St(h, z, h[x])

----------------------------------------------------------------------------
(* sync.Pool of *big.Int (newIntPool).  The pool state is the pair          *)
(* (heap, multiset of pooled cells).  Get removes a pooled cell, or calls   *)
(* New when there is none; Put adds the cell, whatever its state.           *)

PoolOf(h, p) == [val |-> h, inp |-> p]

Pooled(P) == {c \in 1..Len(P.val) : P.inp[c] > 0}

\* cells some strategy variable or returned value still refers to
Referenced ==
    UNION {{slots[w][s] : s \in DOMAIN slots[w]} : w \in Strategies}
        \cup {ret[w].ref : w \in Strategies}
        \cup {x.ref : x \in hist}

\* The cells Get may hand out.  Pooled cells that nothing refers to differ
\* only by their identity, so the least one stands for all of them.
GetChoices(P) ==
    LET plain == Pooled(P) \ Referenced
    IN  (IF plain = {} THEN {} ELSE {Min(plain)}) \cup (Pooled(P) \cap Referenced)

\* pool.Get(): the set of <<cell, pool after>>
PoolGet(P) ==
    IF Pooled(P) = {}
    THEN {<<Len(P.val) + 1,
            PoolOf(Append(P.val, Def(0)), Append(P.inp, 0))>>}
    ELSE {<<c, PoolOf(St(P.val, c, Undef), [P.inp EXCEPT ![c] = @ - 1])>> :
             c \in GetChoices(P)}

\* k successive pool.Get(): the set of <<cells in order, pool after>>
RECURSIVE PoolGetMany(_, _)
PoolGetMany(P, k) ==
    IF k = 0 THEN {<<<<>>, P>>}
    ELSE UNION {{<<<<g[1]>> \o r[1], r[2]>> : r \in PoolGetMany(g[2], k - 1)} :
                  g \in PoolGet(P)}

\* pool.Put(c)
PoolPut(P, c) == PoolOf(P.val, [P.inp EXCEPT ![c] = @ + 1])

\* the deferred pool.Put calls, run in the order given
RECURSIVE PoolPutMany(_, _)
PoolPutMany(P, cs) ==
    IF cs = <<>> THEN P ELSE PoolPutMany(PoolPut(P, Head(cs)), Tail(cs))

----------------------------------------------------------------------------
(* What every strategy call shares *)

\* capacity of the progress channel handed to a strategy: main's
\* make(chan progressData, len(tasksToRun)*2), or, for a call outside main,
\* room for every event of the call
ProgCap == IF tasksToRun = <<>> THEN MaxN + 1 ELSE Len(tasksToRun) * 2

\* a context that never reports cancellation: a faulty variant that C9 must
\* reject
ctxNeverDone == FALSE

ctxDone == ctxErr # "nil"

FDSlots == {"a", "b", "t1", "t2"}
ITSlots == {"a", "b", "currentFib"}
MXSlots == {"res_a", "res_b", "res_c", "res_d",
            "base_a", "base_b", "base_c", "base_d",
            "tmp_a", "tmp_b", "tmp_c", "tmp_d"}

SlotNames(w) ==
    CASE w = FD -> FDSlots
      [] w = IT -> ITSlots
      [] w = MX -> MXSlots
      [] OTHER  -> {"none"}

NoSlots(w) == [s \in SlotNames(w) |-> 0]
NoLoc == [i |-> 0, exp |-> 0]
NoRet == [isNil |-> TRUE, val |-> Undef, ref |-> 0, err |-> "none"]
NoVerdict == [first |-> "none", value |-> Undef, count |-> 0, identical |-> TRUE]

\* a send on the progress channel can go ahead: the buffer has room
CanSendProgress == progClosed = 0 /\ Len(progressCh) < ProgCap

\* progress <- progressData{name, pct}: blocks while the buffer is full
Send(w, p) ==
    /\ CanSendProgress
    /\ progressCh' = Append(progressCh, [name |-> w, pct |-> p])
    /\ sent' = [sent EXCEPT ![w] = Append(@, p)]

NoSend == UNCHANGED <<progressCh, sent>>

\* The *big.Int a call returns is [val, ref]: with ref = 0 a cell of its own,
\* which no pool has ever held, of content val; with ref = c the pooled cell
\* c, of content val when the call returned.
NilInt == [val |-> Undef, ref |-> 0]

\* big.NewInt(x), and new(big.Int) once set to x
NewInt(x) == [val |-> x, ref |-> 0]

\* the pooled cell c itself returned: a faulty variant that C12 must reject
ReturnPooled(h, c) == [val |-> h[c], ref |-> c]

\* new(big.Int).Set(c): a new cell with a copy of c's content
NewIntSet(h, c) == NewInt(h[c])

\* what a *big.Int r shows when it is read
Value(r) == IF r.ref = 0 THEN r.val ELSE cellVal[r.ref]

\* Return with a non-nil *big.Int whatever the error: a faulty variant that
\* C37 must reject
ReturnNeverNil(w, isNil, res, err, puts, h, p) ==
    LET P == PoolPutMany(PoolOf(h, p), puts)
    IN  /\ ret' = [ret EXCEPT ![w] =
                      [isNil |-> FALSE, val |-> res.val, ref |-> res.ref, err |-> err]]
        /\ cellVal' = P.val
        /\ inPool' = P.inp
        /\ rel' = [rel EXCEPT ![w] = @ \o puts]
        /\ hist' = IF err = "nil"
                   THEN hist \cup {[s |-> w, val |-> res.val, ref |-> res.ref]}
                   ELSE hist
        /\ slots' = [slots EXCEPT ![w] = NoSlots(w)]
        /\ loc' = [loc EXCEPT ![w] = NoLoc]
        /\ pc' = [pc EXCEPT ![w] = "returned"]

\* return (res, err) from the heap h and pool p, then the deferred
\* pool.Put calls in the order puts; the locals go out of scope
Return(w, isNil, res, err, puts, h, p) ==
    LET P == PoolPutMany(PoolOf(h, p), puts)
    IN  /\ ret' = [ret EXCEPT ![w] =
                      [isNil |-> isNil, val |-> res.val, ref |-> res.ref, err |-> err]]
        /\ cellVal' = P.val
        /\ inPool' = P.inp
        /\ rel' = [rel EXCEPT ![w] = @ \o puts]
        /\ hist' = IF err = "nil"
                   THEN hist \cup {[s |-> w, val |-> res.val, ref |-> res.ref]}
                   ELSE hist
        /\ slots' = [slots EXCEPT ![w] = NoSlots(w)]
        /\ loc' = [loc EXCEPT ![w] = NoLoc]
        /\ pc' = [pc EXCEPT ![w] = "returned"]

NoReturn == UNCHANGED <<ret, rel, hist>>

\* fibEntry without the test n < 0: a faulty variant that C3 must reject
fibEntryNoNegativeCheck(w) ==
    /\ pc[w] = "entry"
    /\ IF n <= 1 /\ ~sink
       THEN /\ Return(w, FALSE, NewInt(Def(n)), "nil", <<>>, cellVal, inPool)
            /\ NoSend
       ELSE /\ pc' = [pc EXCEPT ![w] = IF n <= 1 THEN "baseSend" ELSE "init"]
            /\ NoSend /\ NoReturn
            /\ UNCHANGED <<cellVal, inPool, slots, loc>>
    /\ UNCHANGED <<n, sink, ctxErr, acq, progClosed, calls, fl>>
    /\ UNCHANGED runVars

\* if n < 0 { return nil, error }; if n <= 1 { send 100; return n }
fibEntry(w) ==
    /\ pc[w] = "entry"
    /\ IF n < 0
       THEN /\ Return(w, TRUE, NilInt, "invalid", <<>>, cellVal, inPool)
            /\ NoSend
       ELSE IF n <= 1 /\ ~sink
       THEN /\ Return(w, FALSE, NewInt(Def(n)), "nil", <<>>, cellVal, inPool)
            /\ NoSend
       ELSE /\ pc' = [pc EXCEPT ![w] = IF n <= 1 THEN "baseSend" ELSE "init"]
            /\ NoSend /\ NoReturn
            /\ UNCHANGED <<cellVal, inPool, slots, loc>>
    /\ UNCHANGED <<n, sink, ctxErr, acq, progClosed, calls, fl>>
    /\ UNCHANGED runVars

\* fibBaseSend without its send: a faulty variant that C4 must reject
fibBaseSendSilent(w) ==
    /\ pc[w] = "baseSend"
    /\ NoSend
    /\ Return(w, FALSE, NewInt(Def(n)), "nil", <<>>, cellVal, inPool)
    /\ UNCHANGED <<n, sink, ctxErr, acq, progClosed, calls, fl>>
    /\ UNCHANGED runVars

\* fibBaseSend with 50% for its event: a faulty variant that C23 must reject
fibBaseSendHalf(w) ==
    /\ pc[w] = "baseSend"
    /\ Send(w, Pct(1, 2))
    /\ Return(w, FALSE, NewInt(Def(n)), "nil", <<>>, cellVal, inPool)
    /\ UNCHANGED <<n, sink, ctxErr, acq, progClosed, calls, fl>>
    /\ UNCHANGED runVars

\* progress <- {taskName, 100.0}; return big.NewInt(int64(n)), nil
fibBaseSend(w) ==
    /\ pc[w] = "baseSend"
    /\ Send(w, Pct100)
    /\ Return(w, FALSE, NewInt(Def(n)), "nil", <<>>, cellVal, inPool)
    /\ UNCHANGED <<n, sink, ctxErr, acq, progClosed, calls, fl>>
    /\ UNCHANGED runVars

----------------------------------------------------------------------------
(* fibFastDoubling *)

\* the deferred calls with pool.Put(a) made twice: a faulty variant that C11
\* must reject
FDReleaseTwice(sl) == <<sl.t2, sl.t1, sl.b, sl.a, sl.a>>

\* the deferred pool.Put calls of fibFastDoubling, last deferred first
FDReleaseOrder(sl) == <<sl.t2, sl.t1, sl.b, sl.a>>

\* FD_Acquire with a taken as the pool gives it, SetInt64(0) left out: a
\* faulty variant that C28 must reject
FD_AcquireKeepsA ==
    /\ pc[FD] = "init"
    /\ \E g \in PoolGetMany(PoolOf(cellVal, inPool), 4) :
          LET cs == g[1]
              h2 == St(g[2].val, cs[2], Def(1))
          IN  /\ cellVal' = h2
              /\ inPool' = g[2].inp
              /\ slots' = [slots EXCEPT ![FD] =
                             [a |-> cs[1], b |-> cs[2], t1 |-> cs[3], t2 |-> cs[4]]]
              /\ acq' = [acq EXCEPT ![FD] = @ \o cs]
    /\ loc' = [loc EXCEPT ![FD] = [i |-> BitLen(n) - 1, exp |-> 0]]
    /\ pc' = [pc EXCEPT ![FD] = "loop"]
    /\ NoSend /\ NoReturn
    /\ UNCHANGED <<n, sink, ctxErr, progClosed, calls, fl>>
    /\ UNCHANGED runVars

\* FD_Acquire with the loop started below the top bit of n, at totalBits - 2:
\* a faulty variant that C31 must reject
FD_AcquireSkipsTopBit ==
    /\ pc[FD] = "init"
    /\ \E g \in PoolGetMany(PoolOf(cellVal, inPool), 4) :
          LET cs == g[1]
              h1 == St(g[2].val, cs[1], Def(0))
              h2 == St(h1, cs[2], Def(1))
          IN  /\ cellVal' = h2
              /\ inPool' = g[2].inp
              /\ slots' = [slots EXCEPT ![FD] =
                             [a |-> cs[1], b |-> cs[2], t1 |-> cs[3], t2 |-> cs[4]]]
              /\ acq' = [acq EXCEPT ![FD] = @ \o cs]
    /\ loc' = [loc EXCEPT ![FD] = [i |-> BitLen(n) - 2, exp |-> 0]]
    /\ pc' = [pc EXCEPT ![FD] = "loop"]
    /\ NoSend /\ NoReturn
    /\ UNCHANGED <<n, sink, ctxErr, progClosed, calls, fl>>
    /\ UNCHANGED runVars

\* a, b := pool.Get().SetInt64(0), pool.Get().SetInt64(1); t1, t2 := pool.Get()
FD_Acquire ==
    /\ pc[FD] = "init"
    /\ \E g \in PoolGetMany(PoolOf(cellVal, inPool), 4) :
          LET cs == g[1]
              h1 == St(g[2].val, cs[1], Def(0))
              h2 == St(h1, cs[2], Def(1))
          IN  /\ cellVal' = h2
              /\ inPool' = g[2].inp
              /\ slots' = [slots EXCEPT ![FD] =
                             [a |-> cs[1], b |-> cs[2], t1 |-> cs[3], t2 |-> cs[4]]]
              /\ acq' = [acq EXCEPT ![FD] = @ \o cs]
    /\ loc' = [loc EXCEPT ![FD] = [i |-> BitLen(n) - 1, exp |-> 0]]
    /\ pc' = [pc EXCEPT ![FD] = "loop"]
    /\ NoSend /\ NoReturn
    /\ UNCHANGED <<n, sink, ctxErr, progClosed, calls, fl>>
    /\ UNCHANGED runVars

\* FDBody without its addition step: a faulty variant that C1 must reject
FDBodyNoAddition(h, sl, i) ==
    LET h1 == ZLsh(h,  sl.t1, sl.b, 1)
        h2 == ZSub(h1, sl.t1, sl.t1, sl.a)
        h3 == ZMul(h2, sl.t2, sl.a, sl.a)
        h4 == ZMul(h3, sl.a, sl.a, sl.t1)
        h5 == ZMul(h4, sl.t1, sl.b, sl.b)
        h6 == ZAdd(h5, sl.b, sl.t2, sl.t1)
    IN  h6

\* FDBody with the bits of n taken from the least significant one up: a
\* faulty variant that C30 must reject
FDBodyLowBitFirst(h, sl, i) ==
    LET h1 == ZLsh(h,  sl.t1, sl.b, 1)
        h2 == ZSub(h1, sl.t1, sl.t1, sl.a)
        h3 == ZMul(h2, sl.t2, sl.a, sl.a)
        h4 == ZMul(h3, sl.a, sl.a, sl.t1)
        h5 == ZMul(h4, sl.t1, sl.b, sl.b)
        h6 == ZAdd(h5, sl.b, sl.t2, sl.t1)
        h7 == ZAdd(h6, sl.t1, sl.a, sl.b)
        h8 == ZSet(h7, sl.a, sl.b)
        h9 == ZSet(h8, sl.b, sl.t1)
    IN  IF Bit(n, BitLen(n) - 1 - i) = 1 THEN h9 ELSE h6

\* t1.Lsh(b, 1); t1.Sub(t1, a): the content of t1 then, 2b - a
FDTwoBMinusA(h, sl) == ZSub(ZLsh(h, sl.t1, sl.b, 1), sl.t1, sl.t1, sl.a)[sl.t1]

\* one doubling step on the heap h, bit i of n deciding the addition step
FDBody(h, sl, i) ==
    LET h1 == ZLsh(h,  sl.t1, sl.b, 1)
        h2 == ZSub(h1, sl.t1, sl.t1, sl.a)
        h3 == ZMul(h2, sl.t2, sl.a, sl.a)
        h4 == ZMul(h3, sl.a, sl.a, sl.t1)
        h5 == ZMul(h4, sl.t1, sl.b, sl.b)
        h6 == ZAdd(h5, sl.b, sl.t2, sl.t1)
        h7 == ZAdd(h6, sl.t1, sl.a, sl.b)
        h8 == ZSet(h7, sl.a, sl.b)
        h9 == ZSet(h8, sl.b, sl.t1)
    IN  IF Bit(n, i) = 1 THEN h9 ELSE h6

\* loop head: i >= 0, the select on ctx.Done(), then the loop body
FD_Loop ==
    /\ pc[FD] = "loop"
    /\ LET sl == slots[FD]
           i  == loc[FD].i
       IN  IF i < 0 /\ sink
           THEN /\ pc' = [pc EXCEPT ![FD] = "finalSend"]
                /\ NoReturn
                /\ UNCHANGED <<cellVal, inPool, slots, loc>>
           ELSE IF i < 0
           THEN Return(FD, FALSE, NewIntSet(cellVal, sl.a), "nil", FDReleaseOrder(sl),
                       cellVal, inPool)
           ELSE IF ctxDone
           THEN Return(FD, TRUE, NilInt, ctxErr, FDReleaseOrder(sl), cellVal, inPool)
           ELSE /\ cellVal' = FDBody(cellVal, sl, i)
                /\ IF sink
                   THEN /\ pc' = [pc EXCEPT ![FD] = "loopSend"]
                        /\ loc' = loc
                   ELSE /\ pc' = pc
                        /\ loc' = [loc EXCEPT ![FD].i = i - 1]
                /\ NoReturn
                /\ UNCHANGED <<inPool, slots>>
    /\ NoSend
    /\ UNCHANGED <<n, sink, ctxErr, acq, progClosed, calls, fl>>
    /\ UNCHANGED runVars

\* progress <- {taskName, float64(totalBits-i)/float64(totalBits)*100}; i--
FD_LoopSend ==
    /\ pc[FD] = "loopSend"
    /\ Send(FD, Pct(BitLen(n) - loc[FD].i, BitLen(n)))
    /\ loc' = [loc EXCEPT ![FD].i = @ - 1]
    /\ pc' = [pc EXCEPT ![FD] = "loop"]
    /\ NoReturn
    /\ UNCHANGED <<n, sink, ctxErr, cellVal, inPool, slots, acq, progClosed, calls, fl>>
    /\ UNCHANGED runVars

\* progress <- {taskName, 100.0}; return new(big.Int).Set(a), nil
FD_FinalSend ==
    /\ pc[FD] = "finalSend"
    /\ Send(FD, Pct100)
    /\ Return(FD, FALSE, NewIntSet(cellVal, slots[FD].a), "nil",
              FDReleaseOrder(slots[FD]),
              cellVal, inPool)
    /\ UNCHANGED <<n, sink, ctxErr, acq, progClosed, calls, fl>>
    /\ UNCHANGED runVars

fibFastDoubling ==
    \/ fibEntry(FD) \/ fibBaseSend(FD)
    \/ FD_Acquire \/ FD_Loop \/ FD_LoopSend \/ FD_FinalSend

----------------------------------------------------------------------------
(* fibIterative *)

ITReleaseOrder(sl) == <<sl.currentFib, sl.b, sl.a>>

\* IT_Acquire with b taken as the pool gives it, SetInt64(1) left out: a
\* faulty variant that C36 must reject
IT_AcquireKeepsB ==
    /\ pc[IT] = "init"
    /\ \E g \in PoolGetMany(PoolOf(cellVal, inPool), 3) :
          LET cs == g[1]
              h1 == St(g[2].val, cs[1], Def(0))
          IN  /\ cellVal' = h1
              /\ inPool' = g[2].inp
              /\ slots' = [slots EXCEPT ![IT] =
                             [a |-> cs[1], b |-> cs[2], currentFib |-> cs[3]]]
              /\ acq' = [acq EXCEPT ![IT] = @ \o cs]
    /\ loc' = [loc EXCEPT ![IT] = [i |-> 2, exp |-> 0]]
    /\ pc' = [pc EXCEPT ![IT] = "loop"]
    /\ NoSend /\ NoReturn
    /\ UNCHANGED <<n, sink, ctxErr, progClosed, calls, fl>>
    /\ UNCHANGED runVars

\* a, b := pool.Get().SetInt64(0), pool.Get().SetInt64(1); currentFib := pool.Get()
IT_Acquire ==
    /\ pc[IT] = "init"
    /\ \E g \in PoolGetMany(PoolOf(cellVal, inPool), 3) :
          LET cs == g[1]
              h1 == St(g[2].val, cs[1], Def(0))
              h2 == St(h1, cs[2], Def(1))
          IN  /\ cellVal' = h2
              /\ inPool' = g[2].inp
              /\ slots' = [slots EXCEPT ![IT] =
                             [a |-> cs[1], b |-> cs[2], currentFib |-> cs[3]]]
              /\ acq' = [acq EXCEPT ![IT] = @ \o cs]
    /\ loc' = [loc EXCEPT ![IT] = [i |-> 2, exp |-> 0]]
    /\ pc' = [pc EXCEPT ![IT] = "loop"]
    /\ NoSend /\ NoReturn
    /\ UNCHANGED <<n, sink, ctxErr, progClosed, calls, fl>>
    /\ UNCHANGED runVars

\* ITBody with its two assignments exchanged: a faulty variant that C2 must
\* reject
ITBodySwapped(h, sl) ==
    LET h1 == ZAdd(h,  sl.currentFib, sl.a, sl.b)
        h2 == ZSet(h1, sl.b, sl.currentFib)
        h3 == ZSet(h2, sl.a, sl.b)
    IN  h3

\* ITBody without a.Set(b): a faulty variant that C34 must reject
ITBodyKeepsA(h, sl) ==
    LET h1 == ZAdd(h,  sl.currentFib, sl.a, sl.b)
        h3 == ZSet(h1, sl.b, sl.currentFib)
    IN  h3

\* currentFib.Add(a, b); a.Set(b); b.Set(currentFib)
ITBody(h, sl) ==
    LET h1 == ZAdd(h,  sl.currentFib, sl.a, sl.b)
        h2 == ZSet(h1, sl.a, sl.b)
        h3 == ZSet(h2, sl.b, sl.currentFib)
    IN  h3

\* IT_Loop without the select in the first iteration: a faulty variant that
\* C13 must reject
IT_LoopLatePoll ==
    /\ pc[IT] = "loop"
    /\ LET sl == slots[IT]
           i  == loc[IT].i
       IN  IF i > n /\ sink /\ n > 1
           THEN /\ pc' = [pc EXCEPT ![IT] = "finalSend"]
                /\ NoReturn
                /\ UNCHANGED <<cellVal, inPool, slots, loc>>
           ELSE IF i > n
           THEN Return(IT, FALSE, NewIntSet(cellVal, sl.b), "nil", ITReleaseOrder(sl),
                       cellVal, inPool)
           ELSE IF ctxDone /\ i > 2
           THEN Return(IT, TRUE, NilInt, ctxErr, ITReleaseOrder(sl), cellVal, inPool)
           ELSE /\ cellVal' = ITBody(cellVal, sl)
                /\ IF sink /\ n > 1
                   THEN /\ pc' = [pc EXCEPT ![IT] = "loopSend"]
                        /\ loc' = loc
                   ELSE /\ pc' = pc
                        /\ loc' = [loc EXCEPT ![IT].i = i + 1]
                /\ NoReturn
                /\ UNCHANGED <<inPool, slots>>
    /\ NoSend
    /\ UNCHANGED <<n, sink, ctxErr, acq, progClosed, calls, fl>>
    /\ UNCHANGED runVars

\* loop head: i <= n, the select on ctx.Done(), then the loop body
IT_Loop ==
    /\ pc[IT] = "loop"
    /\ LET sl == slots[IT]
           i  == loc[IT].i
       IN  IF i > n /\ sink /\ n > 1
           THEN /\ pc' = [pc EXCEPT ![IT] = "finalSend"]
                /\ NoReturn
                /\ UNCHANGED <<cellVal, inPool, slots, loc>>
           ELSE IF i > n
           THEN Return(IT, FALSE, NewIntSet(cellVal, sl.b), "nil", ITReleaseOrder(sl),
                       cellVal, inPool)
           ELSE IF ctxDone
           THEN Return(IT, TRUE, NilInt, ctxErr, ITReleaseOrder(sl), cellVal, inPool)
           ELSE /\ cellVal' = ITBody(cellVal, sl)
                /\ IF sink /\ n > 1
                   THEN /\ pc' = [pc EXCEPT ![IT] = "loopSend"]
                        /\ loc' = loc
                   ELSE /\ pc' = pc
                        /\ loc' = [loc EXCEPT ![IT].i = i + 1]
                /\ NoReturn
                /\ UNCHANGED <<inPool, slots>>
    /\ NoSend
    /\ UNCHANGED <<n, sink, ctxErr, acq, progClosed, calls, fl>>
    /\ UNCHANGED runVars

\* the percentage taken from the index i instead of the i-1 steps done: a
\* faulty variant that C22 must reject
ITPctOfIndex(i) == Pct(i, n - 1)

\* progPct := float64(i-1)/float64(n-1)*100; if i == n { progPct = 100 }
ITPct(i) == IF i = n THEN Pct100 ELSE Pct(i - 1, n - 1)

IT_LoopSend ==
    /\ pc[IT] = "loopSend"
    /\ Send(IT, ITPct(loc[IT].i))
    /\ loc' = [loc EXCEPT ![IT].i = @ + 1]
    /\ pc' = [pc EXCEPT ![IT] = "loop"]
    /\ NoReturn
    /\ UNCHANGED <<n, sink, ctxErr, cellVal, inPool, slots, acq, progClosed, calls, fl>>
    /\ UNCHANGED runVars

\* progress <- {taskName, 100.0}; return new(big.Int).Set(b), nil
IT_FinalSend ==
    /\ pc[IT] = "finalSend"
    /\ Send(IT, Pct100)
    /\ Return(IT, FALSE, NewIntSet(cellVal, slots[IT].b), "nil",
              ITReleaseOrder(slots[IT]),
              cellVal, inPool)
    /\ UNCHANGED <<n, sink, ctxErr, acq, progClosed, calls, fl>>
    /\ UNCHANGED runVars

fibIterative ==
    \/ fibEntry(IT) \/ fibBaseSend(IT)
    \/ IT_Acquire \/ IT_Loop \/ IT_LoopSend \/ IT_FinalSend

----------------------------------------------------------------------------
(* mat2 and fibMatrix *)

\* the four cells of the matrix held in the slots with prefix m
Mat(sl, m) ==
    IF m = "res" THEN [a |-> sl.res_a, b |-> sl.res_b, c |-> sl.res_c, d |-> sl.res_d]
    ELSE IF m = "base"
    THEN [a |-> sl.base_a, b |-> sl.base_b, c |-> sl.base_c, d |-> sl.base_d]
    ELSE [a |-> sl.tmp_a, b |-> sl.tmp_b, c |-> sl.tmp_c, d |-> sl.tmp_d]

\* (m *mat2) release(pool)
Mat2Release(m) == <<m.a, m.b, m.c, m.d>>

\* (m *mat2) set(other)
Mat2Set(h, m, other) ==
    LET h1 == ZSet(h,  m.a, other.a)
        h2 == ZSet(h1, m.b, other.b)
        h3 == ZSet(h2, m.c, other.c)
        h4 == ZSet(h3, m.d, other.d)
    IN  h4

\* the arithmetic of mul with each entry of the receiver written as soon as
\* it is computed: a faulty variant that C33 must reject
Mat2MulBodyInPlace(h, m, m1, m2, t) ==
    LET h1  == ZMul(h,   t[1],  m1.a, m2.a)
        h2  == ZMul(h1,  t[2],  m1.b, m2.c)
        h3  == ZAdd(h2,  m.a,   t[1], t[2])
        h4  == ZMul(h3,  t[3],  m1.a, m2.b)
        h5  == ZMul(h4,  t[4],  m1.b, m2.d)
        h6  == ZAdd(h5,  m.b,   t[3], t[4])
        h7  == ZMul(h6,  t[5],  m1.c, m2.a)
        h8  == ZMul(h7,  t[6],  m1.d, m2.c)
        h9  == ZAdd(h8,  m.c,   t[5], t[6])
        h10 == ZMul(h9,  t[7],  m1.c, m2.b)
        h11 == ZMul(h10, t[8],  m1.d, m2.d)
        h12 == ZAdd(h11, m.d,   t[7], t[8])
    IN  h12

\* the arithmetic of mul on heap h; t = <<p1..p8, valA..valD>>
Mat2MulBody(h, m, m1, m2, t) ==
    LET h1  == ZMul(h,   t[1],  m1.a, m2.a)
        h2  == ZMul(h1,  t[2],  m1.b, m2.c)
        h3  == ZAdd(h2,  t[9],  t[1], t[2])
        h4  == ZMul(h3,  t[3],  m1.a, m2.b)
        h5  == ZMul(h4,  t[4],  m1.b, m2.d)
        h6  == ZAdd(h5,  t[10], t[3], t[4])
        h7  == ZMul(h6,  t[5],  m1.c, m2.a)
        h8  == ZMul(h7,  t[6],  m1.d, m2.c)
        h9  == ZAdd(h8,  t[11], t[5], t[6])
        h10 == ZMul(h9,  t[7],  m1.c, m2.b)
        h11 == ZMul(h10, t[8],  m1.d, m2.d)
        h12 == ZAdd(h11, t[12], t[7], t[8])
        h13 == ZSet(h12, m.a, t[9])
        h14 == ZSet(h13, m.b, t[10])
        h15 == ZSet(h14, m.c, t[11])
        h16 == ZSet(h15, m.d, t[12])
    IN  h16

\* the deferred calls of mul without pool.Put(p1): a faulty variant that C10
\* must reject
Mat2MulReleaseLeaky(t) ==
    <<t[12], t[11], t[10], t[9], t[8], t[7], t[6], t[5], t[4], t[3], t[2]>>

\* the deferred pool.Put calls of mul, last deferred first
Mat2MulReleaseOrder(t) ==
    <<t[12], t[11], t[10], t[9], t[8], t[7], t[6], t[5], t[4], t[3], t[2], t[1]>>

\* (m *mat2) mul(m1, m2, pool) from pool state P: the set of outcomes
\* [P: pool state after, got: cells taken, put: cells given back]
Mat2Mul(P, m, m1, m2) ==
    {[P   |-> PoolPutMany(PoolOf(Mat2MulBody(g[2].val, m, m1, m2, g[1]), g[2].inp),
                          Mat2MulReleaseOrder(g[1])),
      got |-> g[1],
      put |-> Mat2MulReleaseOrder(g[1])] : g \in PoolGetMany(P, 12)}

MXReleaseOrder(sl) ==
    Mat2Release(Mat(sl, "tmp")) \o Mat2Release(Mat(sl, "base"))
        \o Mat2Release(Mat(sl, "res"))

\* res := newMat2(pool) = I; base := newMat2(pool) = Q; tempProduct := newMat2(pool)
MX_Acquire ==
    /\ pc[MX] = "init"
    /\ \E g \in PoolGetMany(PoolOf(cellVal, inPool), 12) :
          LET cs == g[1]
              h1 == St(g[2].val, cs[1], Def(1))
              h2 == St(h1, cs[2], Def(0))
              h3 == St(h2, cs[3], Def(0))
              h4 == St(h3, cs[4], Def(1))
              h5 == St(h4, cs[5], Def(1))
              h6 == St(h5, cs[6], Def(1))
              h7 == St(h6, cs[7], Def(1))
              h8 == St(h7, cs[8], Def(0))
          IN  /\ cellVal' = h8
              /\ inPool' = g[2].inp
              /\ slots' = [slots EXCEPT ![MX] =
                    [res_a  |-> cs[1], res_b  |-> cs[2],  res_c  |-> cs[3],  res_d  |-> cs[4],
                     base_a |-> cs[5], base_b |-> cs[6],  base_c |-> cs[7],  base_d |-> cs[8],
                     tmp_a  |-> cs[9], tmp_b  |-> cs[10], tmp_c  |-> cs[11], tmp_d  |-> cs[12]]]
              /\ acq' = [acq EXCEPT ![MX] = @ \o cs]
    /\ loc' = [loc EXCEPT ![MX] = [i |-> 0, exp |-> n - 1]]
    /\ pc' = [pc EXCEPT ![MX] = "loop"]
    /\ NoSend /\ NoReturn
    /\ UNCHANGED <<n, sink, ctxErr, progClosed, calls, fl>>
    /\ UNCHANGED runVars

\* MXMultiplyStep taken whatever the low bit of exp is: a faulty variant that
\* C32 must reject
MXMultiplyStepAlways(P, sl, exp) ==
    {[P   |-> PoolOf(Mat2Set(r.P.val, Mat(sl, "res"), Mat(sl, "tmp")), r.P.inp),
      got |-> r.got, put |-> r.put] :
        r \in Mat2Mul(P, Mat(sl, "tmp"), Mat(sl, "res"), Mat(sl, "base"))}

\* if exp&1 == 1 { tempProduct.mul(res, base, pool); res.set(tempProduct) }
\* from pool state P: the set of outcomes as for Mat2Mul
MXMultiplyStep(P, sl, exp) ==
    IF exp % 2 = 1
    THEN {[P   |-> PoolOf(Mat2Set(r.P.val, Mat(sl, "res"), Mat(sl, "tmp")), r.P.inp),
           got |-> r.got, put |-> r.put] :
             r \in Mat2Mul(P, Mat(sl, "tmp"), Mat(sl, "res"), Mat(sl, "base"))}
    ELSE {[P |-> P, got |-> <<>>, put |-> <<>>]}

\* exp >>= 1 has given exp; if exp > 0 { tempProduct.mul(base, base, pool);
\* base.set(tempProduct) }
MXSquareStep(P, sl, exp) ==
    IF exp > 0
    THEN {[P   |-> PoolOf(Mat2Set(r.P.val, Mat(sl, "base"), Mat(sl, "tmp")), r.P.inp),
           got |-> r.got, put |-> r.put] :
             r \in Mat2Mul(P, Mat(sl, "tmp"), Mat(sl, "base"), Mat(sl, "base"))}
    ELSE {[P |-> P, got |-> <<>>, put |-> <<>>]}

\* loop head: exp > 0, the select on ctx.Done(), then the loop body
MX_Loop ==
    /\ pc[MX] = "loop"
    /\ LET sl  == slots[MX]
           exp == loc[MX].exp
       IN  IF exp = 0 /\ sink
           THEN /\ pc' = [pc EXCEPT ![MX] = "finalSend"]
                /\ NoReturn
                /\ UNCHANGED <<cellVal, inPool, slots, loc, acq>>
           ELSE IF exp = 0
           THEN /\ Return(MX, FALSE, NewIntSet(cellVal, sl.res_a), "nil",
                          MXReleaseOrder(sl),
                          cellVal, inPool)
                /\ acq' = acq
           ELSE IF ctxDone
           THEN /\ Return(MX, TRUE, NilInt, ctxErr, MXReleaseOrder(sl), cellVal, inPool)
                /\ acq' = acq
           ELSE \E r1 \in MXMultiplyStep(PoolOf(cellVal, inPool), sl, exp) :
                \E r2 \in MXSquareStep(r1.P, sl, exp \div 2) :
                    /\ cellVal' = r2.P.val
                    /\ inPool' = r2.P.inp
                    /\ acq' = [acq EXCEPT ![MX] = @ \o r1.got \o r2.got]
                    /\ rel' = [rel EXCEPT ![MX] = @ \o r1.put \o r2.put]
                    /\ IF sink /\ BitLen(n - 1) > 0
                       THEN /\ pc' = [pc EXCEPT ![MX] = "loopSend"]
                            /\ loc' = [loc EXCEPT ![MX].exp = exp \div 2]
                       ELSE /\ pc' = pc
                            /\ loc' = [loc EXCEPT ![MX] =
                                          [i |-> @.i + 1, exp |-> exp \div 2]]
                    /\ UNCHANGED <<ret, hist, slots>>
    /\ NoSend
    /\ UNCHANGED <<n, sink, ctxErr, progClosed, calls, fl>>
    /\ UNCHANGED runVars

\* currentProgress := float64(i+1)/float64(totalSteps)*100, capped at 100
MXPct(i) ==
    IF i + 1 > BitLen(n - 1) THEN Pct100 ELSE Pct(i + 1, BitLen(n - 1))

MX_LoopSend ==
    /\ pc[MX] = "loopSend"
    /\ Send(MX, MXPct(loc[MX].i))
    /\ loc' = [loc EXCEPT ![MX].i = @ + 1]
    /\ pc' = [pc EXCEPT ![MX] = "loop"]
    /\ NoReturn
    /\ UNCHANGED <<n, sink, ctxErr, cellVal, inPool, slots, acq, progClosed, calls, fl>>
    /\ UNCHANGED runVars

\* progress <- {taskName, 100.0}; return new(big.Int).Set(res.a), nil
MX_FinalSend ==
    /\ pc[MX] = "finalSend"
    /\ Send(MX, Pct100)
    /\ Return(MX, FALSE, NewIntSet(cellVal, slots[MX].res_a), "nil",
              MXReleaseOrder(slots[MX]),
              cellVal, inPool)
    /\ UNCHANGED <<n, sink, ctxErr, acq, progClosed, calls, fl>>
    /\ UNCHANGED runVars

fibMatrix ==
    \/ fibEntry(MX) \/ fibBaseSend(MX)
    \/ MX_Acquire \/ MX_Loop \/ MX_LoopSend \/ MX_FinalSend

----------------------------------------------------------------------------
(* big.Float as fibBinet uses it.  A natural number is the sequence of its  *)
(* words, least significant first, without leading zero words; a float of   *)
(* precision prec is [m, e], the value m * 2^e with m of exactly prec bits  *)
(* (or m = 0).  Every operation computes the exact result and rounds it to  *)
(* prec bits, to nearest, ties to even (big.ToNearestEven, the default).    *)

LimbBits == 15
LB == Pow2(LimbBits)

RECURSIVE NatOfInt(_)
NatOfInt(x) == IF x = 0 THEN <<>> ELSE <<x % LB>> \o NatOfInt(x \div LB)

RECURSIVE IntOfNat(_)
IntOfNat(a) == IF a = <<>> THEN 0 ELSE Head(a) + LB * IntOfNat(Tail(a))

RECURSIVE NNorm(_)
NNorm(a) ==
    IF a = <<>> THEN <<>>
    ELSE IF a[Len(a)] = 0 THEN NNorm(SubSeq(a, 1, Len(a) - 1))
    ELSE a

HeadOr0(a) == IF a = <<>> THEN 0 ELSE Head(a)
TailOrEmpty(a) == IF a = <<>> THEN <<>> ELSE Tail(a)

RECURSIVE NAddC(_, _, _)
NAddC(a, b, c) ==
    IF a = <<>> /\ b = <<>> THEN (IF c = 0 THEN <<>> ELSE <<c>>)
    ELSE LET t == HeadOr0(a) + HeadOr0(b) + c
         IN  <<t % LB>> \o NAddC(TailOrEmpty(a), TailOrEmpty(b), t \div LB)

NAdd(a, b) == NAddC(a, b, 0)

\* a - b - c for a >= b + c, word by word, before normalisation
RECURSIVE NSubB(_, _, _)
NSubB(a, b, c) ==
    IF a = <<>> THEN <<>>
    ELSE LET t == Head(a) - HeadOr0(b) - c
         IN  <<(t + LB) % LB>> \o NSubB(Tail(a), TailOrEmpty(b), IF t < 0 THEN 1 ELSE 0)

NSub(a, b) == NNorm(NSubB(a, b, 0))

\* compares the words k, k-1, .. 1 of two numbers of the same length
RECURSIVE NCmpFrom(_, _, _)
NCmpFrom(a, b, k) ==
    IF k = 0 THEN 0
    ELSE IF a[k] < b[k] THEN -1
    ELSE IF a[k] > b[k] THEN 1
    ELSE NCmpFrom(a, b, k - 1)

NCmp(a, b) ==
    IF Len(a) < Len(b) THEN -1
    ELSE IF Len(a) > Len(b) THEN 1
    ELSE NCmpFrom(a, b, Len(a))

RECURSIVE NMulSmallC(_, _, _)
NMulSmallC(a, d, c) ==
    IF a = <<>> THEN (IF c = 0 THEN <<>> ELSE <<c>>)
    ELSE LET t == Head(a) * d + c
         IN  <<t % LB>> \o NMulSmallC(Tail(a), d, t \div LB)

RECURSIVE NMul(_, _)
NMul(a, b) ==
    IF a = <<>> \/ b = <<>> THEN <<>>
    ELSE NAdd(NMulSmallC(a, Head(b), 0),
              IF Tail(b) = <<>> THEN <<>> ELSE <<0>> \o NMul(a, Tail(b)))

NBitLen(a) == IF a = <<>> THEN 0 ELSE LimbBits * (Len(a) - 1) + BitLen(a[Len(a)])

NBit(a, i) ==
    IF i \div LimbBits + 1 > Len(a) THEN 0
    ELSE Bit(a[i \div LimbBits + 1], i % LimbBits)

\* a * 2^k
NShl(a, k) ==
    IF a = <<>> THEN <<>>
    ELSE [j \in 1..(k \div LimbBits) |-> 0] \o NMulSmallC(a, Pow2(k % LimbBits), 0)

\* a with its lowest j < LimbBits bits dropped
NShrBits(a, j) ==
    NNorm([k \in 1..Len(a) |->
             (a[k] \div Pow2(j))
             + (IF k < Len(a) THEN (a[k + 1] % Pow2(j)) * Pow2(LimbBits - j) ELSE 0)])

\* floor(a / 2^k)
NShr(a, k) ==
    IF k \div LimbBits >= Len(a) THEN <<>>
    ELSE NShrBits(SubSeq(a, k \div LimbBits + 1, Len(a)), k % LimbBits)

\* one step of the long division of a by b # 0: qr is <<quotient, remainder>>
\* of the bits of a above bit i, the result that of the bits from bit i up
NDivBit(a, b, i, qr) ==
    LET r2 == NAdd(NShl(qr[2], 1), NatOfInt(NBit(a, i)))
    IN  IF NCmp(r2, b) >= 0
        THEN <<NAdd(NShl(qr[1], 1), <<1>>), NSub(r2, b)>>
        ELSE <<NShl(qr[1], 1), r2>>

\* the steps for the bits hi, hi-1, .. lo of a, the upper half first (qr is
\* compared first so that it is evaluated before the lower half is entered)
RECURSIVE NDivBits(_, _, _, _, _)
NDivBits(a, b, hi, lo, qr) ==
    IF hi < lo \/ qr = <<>> THEN qr
    ELSE IF hi = lo THEN NDivBit(a, b, hi, qr)
    ELSE NDivBits(a, b, (hi + lo) \div 2, lo,
                  NDivBits(a, b, hi, (hi + lo) \div 2 + 1, qr))

\* <<quotient, remainder>> of a by b # 0
NDivMod(a, b) == NDivBits(a, b, NBitLen(a) - 1, 0, <<(<<>>), (<<>>)>>)

\* one step of the square root of a: s is the root's bits above bit i
NSqrtBit(a, i, s, cand) == IF NCmp(NMul(cand, cand), a) <= 0 THEN cand ELSE s

\* the steps for the bits hi, hi-1, .. lo of the root, the upper half first
\* (s is compared first so that it is evaluated before the lower half is
\* entered; a root bit is never above a's top bit)
RECURSIVE NSqrtBits(_, _, _, _)
NSqrtBits(a, hi, lo, s) ==
    IF hi < lo \/ Len(s) > Len(a) THEN s
    ELSE IF hi = lo THEN NSqrtBit(a, hi, s, NAdd(s, NShl(<<1>>, hi)))
    ELSE NSqrtBits(a, (hi + lo) \div 2, lo,
                   NSqrtBits(a, hi, (hi + lo) \div 2 + 1, s))

\* floor(sqrt(a))
NSqrt(a) == NSqrtBits(a, (NBitLen(a) + 1) \div 2, 0, <<>>)

FZero == [m |-> <<>>, e |-> 0]

\* q * 2^e with q of prec or prec+1 bits: renormalised to prec bits
FNormUp(q, e, prec) ==
    IF NBitLen(q) > prec THEN [m |-> NShr(q, 1), e |-> e + 1] ELSE [m |-> q, e |-> e]

\* the exact value M * 2^e that has s > 0 bits too many, rounded to nearest even
FRoundDown(M, e, s, prec) ==
    LET q == NShr(M, s)
        c == NCmp(NSub(M, NShl(q, s)), NShl(<<1>>, s - 1))
    IN  FNormUp(IF c > 0 \/ (c = 0 /\ NBit(q, 0) = 1) THEN NAdd(q, <<1>>) ELSE q,
                e + s, prec)

\* the exact value M * 2^e rounded to prec bits
FRound(M, e, prec) ==
    IF M = <<>> THEN FZero
    ELSE IF NBitLen(M) <= prec
    THEN [m |-> NShl(M, prec - NBitLen(M)), e |-> e - (prec - NBitLen(M))]
    ELSE FRoundDown(M, e, NBitLen(M) - prec, prec)

\* newFloat().SetUint64(v), SetInt64(v) for v >= 0
FSetInt(v, prec) == FRound(NatOfInt(v), 0, prec)

\* newFloat().SetFloat64(0.5)
FHalf(prec) == FRound(<<1>>, 0 - 1, prec)

\* z.Mul(x, y)
FMul(x, y, prec) == FRound(NMul(x.m, y.m), x.e + y.e, prec)

IntMin(x, y) == IF x < y THEN x ELSE y

\* z.Add(x, y)
FAdd(x, y, prec) ==
    FRound(NAdd(NShl(x.m, x.e - IntMin(x.e, y.e)), NShl(y.m, y.e - IntMin(x.e, y.e))),
           IntMin(x.e, y.e), prec)

\* the quotient q and remainder r of a division or root, as an exact value
\* with a sticky last bit
WithSticky(q, exact) == NAdd(NShl(q, 1), IF exact THEN <<>> ELSE <<1>>)

\* z.Quo(x, y): the quotient to prec+2 bits and a sticky bit, then rounded
FQuoOf(dm, e, prec) == FRound(WithSticky(dm[1], dm[2] = <<>>), e, prec)

FQuo(x, y, prec) ==
    FQuoOf(NDivMod(NShl(x.m, prec + 2), y.m), x.e - y.e - (prec + 2) - 1, prec)

\* z.Sqrt(x): the root of x.m * 2^(x.e) to more than prec+2 bits and a sticky
\* bit, then rounded; t makes the exponent even
FSqrtRound(r, M, e2, prec) ==
    FRound(WithSticky(r, NMul(r, r) = M), e2 \div 2 - 1, prec)

FSqrtOf(M, e2, prec) == FSqrtRound(NSqrt(M), M, e2, prec)

FSqrtShift(x, prec) ==
    IF (x.e - 2 * (prec + 2)) % 2 = 0 THEN 2 * (prec + 2) ELSE 2 * (prec + 2) + 1

FSqrt(x, prec) ==
    FSqrtOf(NShl(x.m, FSqrtShift(x, prec)), x.e - FSqrtShift(x, prec), prec)

\* x.Int(z): truncation toward zero, for x >= 0
FInt(x) == IF x.e >= 0 THEN NShl(x.m, x.e) ELSE NShr(x.m, 0 - x.e)

----------------------------------------------------------------------------
(* fibBinet *)

\* prec := uint(float64(n)*math.Log2(phiVal) + 20), Log2(phi) = 0.6942419...
BinetPrec(k) == (k * 6942419) \div 10000000 + 20

\* sqrt5 := newFloat().SetUint64(5); sqrt5.Sqrt(sqrt5)
BinetSqrt5(prec) == FSqrt(FSetInt(5, prec), prec)

\* phi := newFloat().SetUint64(1); phi.Add(phi, sqrt5); phi.Quo(phi, 2)
BinetPhi(prec) ==
    FQuo(FAdd(FSetInt(1, prec), BinetSqrt5(prec), prec), FSetInt(2, prec), prec)

\* if (exponent>>i)&1 == 1 { phiToN.Mul(phiToN, base) }
BinetMultiply(f, i) ==
    IF Bit(n, i) = 1 THEN FMul(f.phiToN, f.base, f.prec) ELSE f.phiToN

\* the quotient truncated without the half added: a faulty variant that C29
\* must reject
BinetResultTruncated(f) == IntOfNat(FInt(FQuo(f.phiToN, f.sqrt5, f.prec)))

\* phiToN.Quo(phiToN, sqrt5); phiToN.Add(phiToN, half); phiToN.Int(resultInt)
BinetResult(f) ==
    IntOfNat(FInt(FAdd(FQuo(f.phiToN, f.sqrt5, f.prec), FHalf(f.prec), f.prec)))

NoFl == [prec |-> 0, sqrt5 |-> FZero, phiToN |-> FZero, base |-> FZero, result |-> 0]

\* BN_Setup with resultInt taken from the pool: a faulty variant that C35
\* must reject
BN_SetupFromPool ==
    /\ pc[BN] = "init"
    /\ \E g \in PoolGet(PoolOf(cellVal, inPool)) :
          /\ cellVal' = g[2].val
          /\ inPool' = g[2].inp
          /\ acq' = [acq EXCEPT ![BN] = Append(@, g[1])]
    /\ fl' = [prec   |-> BinetPrec(n),
              sqrt5  |-> BinetSqrt5(BinetPrec(n)),
              phiToN |-> FSetInt(1, BinetPrec(n)),
              base   |-> BinetPhi(BinetPrec(n)),
              result |-> 0]
    /\ loc' = [loc EXCEPT ![BN] = [i |-> 0, exp |-> n]]
    /\ pc' = [pc EXCEPT ![BN] = "loop"]
    /\ NoSend /\ NoReturn
    /\ UNCHANGED <<n, sink, ctxErr, slots, progClosed, calls>>
    /\ UNCHANGED runVars

\* prec, sqrt5, phi, numBitsInN; phiToN := 1; base := phi
BN_Setup ==
    /\ pc[BN] = "init"
    /\ fl' = [prec   |-> BinetPrec(n),
              sqrt5  |-> BinetSqrt5(BinetPrec(n)),
              phiToN |-> FSetInt(1, BinetPrec(n)),
              base   |-> BinetPhi(BinetPrec(n)),
              result |-> 0]
    /\ loc' = [loc EXCEPT ![BN] = [i |-> 0, exp |-> n]]
    /\ pc' = [pc EXCEPT ![BN] = "loop"]
    /\ NoSend /\ NoReturn
    /\ UNCHANGED <<n, sink, ctxErr, cellVal, inPool, slots, acq, progClosed, calls>>
    /\ UNCHANGED runVars

\* BN_Loop with the select in the first iteration only: a faulty variant
\* that C14 must reject
BN_LoopPollFirstOnly ==
    /\ pc[BN] = "loop"
    /\ LET i == loc[BN].i
       IN  IF i >= BitLen(n) /\ sink
           THEN /\ pc' = [pc EXCEPT ![BN] = "finalSend"]
                /\ fl' = [fl EXCEPT !.result = BinetResult(fl)]
                /\ NoReturn
                /\ UNCHANGED <<cellVal, inPool, slots, loc>>
           ELSE IF i >= BitLen(n)
           THEN /\ Return(BN, FALSE, NewInt(Def(BinetResult(fl))), "nil", <<>>,
                          cellVal, inPool)
                /\ fl' = NoFl
           ELSE IF ctxDone /\ i = 0
           THEN /\ Return(BN, TRUE, NilInt, ctxErr, <<>>, cellVal, inPool)
                /\ fl' = NoFl
           ELSE /\ fl' = [fl EXCEPT !.phiToN = BinetMultiply(fl, i),
                                    !.base = FMul(fl.base, fl.base, fl.prec)]
                /\ IF sink
                   THEN /\ pc' = [pc EXCEPT ![BN] = "loopSend"]
                        /\ loc' = loc
                   ELSE /\ pc' = pc
                        /\ loc' = [loc EXCEPT ![BN].i = i + 1]
                /\ NoReturn
                /\ UNCHANGED <<cellVal, inPool, slots>>
    /\ NoSend
    /\ UNCHANGED <<n, sink, ctxErr, acq, progClosed, calls>>
    /\ UNCHANGED runVars

\* loop head: i < numBitsInN, the select on ctx.Done(), then the loop body;
\* after the loop the division, the rounding and the conversion
BN_Loop ==
    /\ pc[BN] = "loop"
    /\ LET i == loc[BN].i
       IN  IF i >= BitLen(n) /\ sink
           THEN /\ pc' = [pc EXCEPT ![BN] = "finalSend"]
                /\ fl' = [fl EXCEPT !.result = BinetResult(fl)]
                /\ NoReturn
                /\ UNCHANGED <<cellVal, inPool, slots, loc>>
           ELSE IF i >= BitLen(n)
           THEN /\ Return(BN, FALSE, NewInt(Def(BinetResult(fl))), "nil", <<>>,
                          cellVal, inPool)
                /\ fl' = NoFl
           ELSE IF ctxDone
           THEN /\ Return(BN, TRUE, NilInt, ctxErr, <<>>, cellVal, inPool)
                /\ fl' = NoFl
           ELSE /\ fl' = [fl EXCEPT !.phiToN = BinetMultiply(fl, i),
                                    !.base = FMul(fl.base, fl.base, fl.prec)]
                /\ IF sink
                   THEN /\ pc' = [pc EXCEPT ![BN] = "loopSend"]
                        /\ loc' = loc
                   ELSE /\ pc' = pc
                        /\ loc' = [loc EXCEPT ![BN].i = i + 1]
                /\ NoReturn
                /\ UNCHANGED <<cellVal, inPool, slots>>
    /\ NoSend
    /\ UNCHANGED <<n, sink, ctxErr, acq, progClosed, calls>>
    /\ UNCHANGED runVars

\* progress <- {taskName, float64(i+1)/float64(numBitsInN)*100}; i++
BN_LoopSend ==
    /\ pc[BN] = "loopSend"
    /\ Send(BN, Pct(loc[BN].i + 1, BitLen(n)))
    /\ loc' = [loc EXCEPT ![BN].i = @ + 1]
    /\ pc' = [pc EXCEPT ![BN] = "loop"]
    /\ NoReturn
    /\ UNCHANGED <<n, sink, ctxErr, cellVal, inPool, slots, acq, progClosed, calls, fl>>
    /\ UNCHANGED runVars

\* progress <- {taskName, 100.0}; return resultInt, nil
BN_FinalSend ==
    /\ pc[BN] = "finalSend"
    /\ Send(BN, Pct100)
    /\ Return(BN, FALSE, NewInt(Def(fl.result)), "nil", <<>>, cellVal, inPool)
    /\ fl' = NoFl
    /\ UNCHANGED <<n, sink, ctxErr, acq, progClosed, calls>>
    /\ UNCHANGED runVars

fibBinet ==
    \/ fibEntry(BN) \/ fibBaseSend(BN)
    \/ BN_Setup \/ BN_Loop \/ BN_LoopSend \/ BN_FinalSend

----------------------------------------------------------------------------
(* The tests' way of calling: one strategy at a time, all on one pool and   *)
(* one index, with or without a progress channel, the context cancelled at  *)
(* any moment or never.                                                     *)

InitCall ==
    /\ n \in (0 - NegN)..MaxN
    /\ sink \in BOOLEAN
    /\ ctxErr = "nil"
    /\ pc = [w \in Strategies |-> "idle"]
    /\ loc = [w \in Strategies |-> NoLoc]
    /\ slots = [w \in Strategies |-> NoSlots(w)]
    /\ cellVal = <<>>
    /\ inPool = <<>>
    /\ acq = [w \in Strategies |-> <<>>]
    /\ rel = [w \in Strategies |-> <<>>]
    /\ ret = [w \in Strategies |-> NoRet]
    /\ sent = [w \in Strategies |-> <<>>]
    /\ progressCh = <<>>
    /\ progClosed = 0
    /\ calls = 0
    /\ hist = {}
    /\ fl = NoFl
    /\ algorithmsFlag = <<>>
    /\ tasksToRun = <<>>
    /\ mainPc = "none"
    /\ wg = 0
    /\ resultsCh = <<>>
    /\ resClosed = 0
    /\ printerPc = "none"
    /\ status = <<>>
    /\ applied = <<>>
    /\ rendered = <<>>
    /\ results = <<>>
    /\ verdict = NoVerdict
    /\ expired = FALSE

\* algoFunc(ctx, progress, tc.n, pool) with a fresh progress channel
StartCall(w) ==
    /\ calls < MaxCalls
    /\ \A v \in Strategies : pc[v] \in {"idle", "returned"}
    /\ pc' = [pc EXCEPT ![w] = "entry"]
    /\ calls' = calls + 1
    /\ acq' = [acq EXCEPT ![w] = <<>>]
    /\ rel' = [rel EXCEPT ![w] = <<>>]
    /\ ret' = [ret EXCEPT ![w] = NoRet]
    /\ sent' = [sent EXCEPT ![w] = <<>>]
    /\ progressCh' = <<>>
    /\ UNCHANGED <<n, sink, ctxErr, loc, slots, cellVal, inPool, progClosed, hist, fl>>
    /\ UNCHANGED runVars

\* the context's cancel function is called
Cancel ==
    /\ ctxErr = "nil"
    /\ ctxErr' = "canceled"
    /\ UNCHANGED <<n, sink, pc, loc, slots, cellVal, inPool, acq, rel, ret, sent,
                   progressCh, progClosed, calls, hist, fl>>
    /\ UNCHANGED runVars

NextCall ==
    \/ \E w \in Strategies : StartCall(w)
    \/ Cancel
    \/ fibFastDoubling
    \/ fibMatrix
    \/ fibIterative
    \/ fibBinet

SpecCall == InitCall /\ [][NextCall]_vars

----------------------------------------------------------------------------
(* main: the selected strategies raced as goroutines under one context,     *)
(* progressPrinter, the join, the two closes and collectAndDisplayResults.  *)

\* defaultOrder of the flag value "all"
DefaultOrder == <<FD, MX, BN, IT>>

\* the task lists a run is started with: the selected names, without
\* duplicates, in the default order
TaskLists ==
    {SelectSeq(DefaultOrder, LAMBDA x : x \in S) :
        S \in {T \in SUBSET Strategies : Cardinality(T) \in 1..MaxTasks}}

Selected == Range(tasksToRun)

\* The value of flag -algorithms is kept as the sequence of its
\* comma-separated fields.  A field is [word, casing, padded]: the word it
\* spells when case is disregarded, how it is cased ("asis": as the
\* registered name is written, "lower", "upper"), and whether spaces
\* surround it.
Token(word, casing, padded) == [word |-> word, casing |-> casing, padded |-> padded]

\* the flag value that names the tasks ts as they are registered
FlagNaming(ts) == [k \in 1..Len(ts) |-> Token(ts[k], "asis", FALSE)]

\* strings.TrimSpace(name)
TrimSpace(t) == [t EXCEPT !.padded = FALSE]

\* strings.EqualFold(trimmedName, registeredName) compared as written, case
\* included: a faulty variant that C39 must reject
EqualExactly(t, registeredName) ==
    ~t.padded /\ t.word = registeredName /\ t.casing = "asis"

\* strings.EqualFold(trimmedName, registeredName)
EqualFold(t, registeredName) == ~t.padded /\ t.word = registeredName

\* the first loop of the branch "all": the names of defaultOrder that are
\* registered and not yet added
RECURSIVE SelectDefault(_, _)
SelectDefault(names, acc) ==
    IF names = <<>> THEN acc
    ELSE IF Head(names) \in Strategies /\ Head(names) \notin Range(acc)
    THEN SelectDefault(Tail(names), Append(acc, Head(names)))
    ELSE SelectDefault(Tail(names), acc)

\* the branch "all": defaultOrder, then the registered names not yet added,
\* in the order the map yields them: the set of task lists it can give
SelectAll ==
    LET first == SelectDefault(DefaultOrder, <<>>)
        rest  == Strategies \ Range(first)
    IN  {first \o q : q \in {f \in [1..Cardinality(rest) -> rest] :
                               \A i, j \in 1..Cardinality(rest) : i # j => f[i] # f[j]}}

\* the branch of a list: each field trimmed and looked up among the
\* registered names, the name found added unless it is there already, a
\* field that names nothing skipped: the set of task lists it can give
RECURSIVE SelectNamed(_, _)
SelectNamed(fields, acc) ==
    IF fields = <<>> THEN {acc}
    ELSE LET trimmedName == TrimSpace(Head(fields))
             found == {r \in Strategies : EqualFold(trimmedName, r)}
         IN  IF found = {} THEN SelectNamed(Tail(fields), acc)
             ELSE UNION {SelectNamed(Tail(fields),
                                     IF actualName \in Range(acc) THEN acc
                                     ELSE Append(acc, actualName)) :
                            actualName \in found}

\* if *algorithmsFlag == "all" { ... } else { ... }
SelectTasks(flag) ==
    IF flag = <<Token("all", "lower", FALSE)>> THEN SelectAll
    ELSE SelectNamed(flag, <<>>)

\* main, from the flags to the list of tasks: tasksToRun built, log.Fatalf
\* when it is empty
MainSelect ==
    /\ mainPc = "select"
    /\ \E ts \in SelectTasks(algorithmsFlag) :
          /\ tasksToRun' = ts
          /\ mainPc' = IF Len(ts) = 0 THEN "fatal" ELSE "selected"
    /\ UNCHANGED callVars
    /\ UNCHANGED <<algorithmsFlag, wg, resultsCh, resClosed, printerPc, status,
                   results, verdict, applied, rendered, expired>>

\* the state in which main waits at wg.Wait(): context, pool and channels
\* made, the printer and one worker per task launched
InitRun ==
    /\ n \in 0..RunMaxN
    /\ sink = TRUE
    /\ ctxErr \in {"nil", "deadline"}
    /\ expired = (ctxErr = "deadline")
    /\ tasksToRun \in TaskLists
    /\ algorithmsFlag = FlagNaming(tasksToRun)
    /\ pc = [w \in Strategies |-> IF w \in Selected THEN "entry" ELSE "idle"]
    /\ loc = [w \in Strategies |-> NoLoc]
    /\ slots = [w \in Strategies |-> NoSlots(w)]
    /\ cellVal = <<>>
    /\ inPool = <<>>
    /\ acq = [w \in Strategies |-> <<>>]
    /\ rel = [w \in Strategies |-> <<>>]
    /\ ret = [w \in Strategies |-> NoRet]
    /\ sent = [w \in Strategies |-> <<>>]
    /\ progressCh = <<>>
    /\ progClosed = 0
    /\ calls = 0
    /\ hist = {}
    /\ fl = NoFl
    /\ mainPc = "wait"
    /\ wg = Len(tasksToRun)
    /\ resultsCh = <<>>
    /\ resClosed = 0
    /\ printerPc = "select"
    /\ status = [w \in Selected |-> Pct0]
    /\ applied = [w \in Selected |-> <<>>]
    /\ rendered = <<>>
    /\ results = <<>>
    /\ verdict = NoVerdict

\* the timer of context.WithTimeout fires
Deadline ==
    /\ mainPc \notin {"none", "done"}
    /\ ctxErr = "nil"
    /\ ctxErr' = "deadline"
    /\ UNCHANGED <<n, sink, pc, loc, slots, cellVal, inPool, acq, rel, ret, sent,
                   progressCh, progClosed, calls, hist, fl>>
    /\ UNCHANGED runVars

\* a worker that ends without sending its result: a faulty variant that C6
\* must reject
WorkerResultLost(w) ==
    /\ mainPc # "none"
    /\ pc[w] = "returned"
    /\ wg' = wg - 1
    /\ pc' = [pc EXCEPT ![w] = "exited"]
    /\ UNCHANGED <<n, sink, ctxErr, loc, slots, cellVal, inPool, acq, rel, ret, sent,
                   progressCh, progClosed, calls, hist, fl>>
    /\ UNCHANGED <<algorithmsFlag, tasksToRun, mainPc, resultsCh, resClosed, printerPc, status,
                   results, verdict, expired,
                   applied, rendered>>

\* a worker whose failure empties the results channel of the other workers'
\* results: a faulty variant that C21 must reject
WorkerResultFailureClears(w) ==
    /\ mainPc # "none"
    /\ pc[w] = "returned"
    /\ Len(resultsCh) < Len(tasksToRun)
    /\ resClosed = 0
    /\ \E d \in 1..MaxDur :
          resultsCh' =
              (IF ret[w].err = "nil" THEN resultsCh ELSE <<>>)
                  \o <<[name |-> w, isNil |-> ret[w].isNil, val |-> ret[w].val,
                        ref |-> ret[w].ref,
                        duration |-> d, err |-> ret[w].err]>>
    /\ wg' = wg - 1
    /\ pc' = [pc EXCEPT ![w] = "exited"]
    /\ UNCHANGED <<n, sink, ctxErr, loc, slots, cellVal, inPool, acq, rel, ret, sent,
                   progressCh, progClosed, calls, hist, fl>>
    /\ UNCHANGED <<algorithmsFlag, tasksToRun, mainPc, resClosed, printerPc, status, results,
                   verdict, expired,
                   applied, rendered>>

\* CanSendResult for a results channel of capacity one, whatever the number
\* of tasks: a faulty variant that C38 must reject
CanSendResultCapacityOne == resClosed = 0 /\ Len(resultsCh) < 1

\* a send on the results channel can go ahead: the buffer has room
CanSendResult == resClosed = 0 /\ Len(resultsCh) < Len(tasksToRun)

\* duration := time.Since(start); resultsCh <- result{name, v, duration, err};
\* then the deferred wg.Done()
WorkerResult(w) ==
    /\ mainPc # "none"
    /\ pc[w] = "returned"
    /\ CanSendResult
    /\ \E d \in 1..MaxDur :
          resultsCh' = Append(resultsCh,
              [name |-> w, isNil |-> ret[w].isNil, val |-> ret[w].val,
               ref |-> ret[w].ref,
               duration |-> d, err |-> ret[w].err])
    /\ wg' = wg - 1
    /\ pc' = [pc EXCEPT ![w] = "exited"]
    /\ UNCHANGED <<n, sink, ctxErr, loc, slots, cellVal, inPool, acq, rel, ret, sent,
                   progressCh, progClosed, calls, hist, fl>>
    /\ UNCHANGED <<algorithmsFlag, tasksToRun, mainPc, resClosed, printerPc, status, results,
                   verdict, expired,
                   applied, rendered>>

\* a printer that takes the newest event of the channel first: a faulty
\* variant that C25 must reject
PrinterRecvNewestFirst ==
    /\ printerPc = "select"
    /\ progressCh # <<>>
    /\ status' = [status EXCEPT ![progressCh[Len(progressCh)].name] =
                     progressCh[Len(progressCh)].pct]
    /\ applied' = [applied EXCEPT ![progressCh[Len(progressCh)].name] =
                      Append(@, progressCh[Len(progressCh)].pct)]
    /\ rendered' = <<status'>>
    /\ progressCh' = SubSeq(progressCh, 1, Len(progressCh) - 1)
    /\ UNCHANGED <<n, sink, ctxErr, pc, loc, slots, cellVal, inPool, acq, rel, ret,
                   sent, progClosed, calls, hist, fl>>
    /\ UNCHANGED <<algorithmsFlag, tasksToRun, mainPc, wg, resultsCh, resClosed, printerPc, results,
                   verdict, expired>>

\* case p, ok := <-progress with ok: status[p.name] = p.pct; printStatus
PrinterRecv ==
    /\ printerPc = "select"
    /\ progressCh # <<>>
    /\ status' = [status EXCEPT ![Head(progressCh).name] = Head(progressCh).pct]
    /\ applied' = [applied EXCEPT ![Head(progressCh).name] =
                      Append(@, Head(progressCh).pct)]
    /\ rendered' = <<status'>>
    /\ progressCh' = Tail(progressCh)
    /\ UNCHANGED <<n, sink, ctxErr, pc, loc, slots, cellVal, inPool, acq, rel, ret,
                   sent, progClosed, calls, hist, fl>>
    /\ UNCHANGED <<algorithmsFlag, tasksToRun, mainPc, wg, resultsCh, resClosed, printerPc, results,
                   verdict, expired>>

\* a printer that returns as soon as the channel is closed, events still
\* buffered: a faulty variant that C24 must reject
PrinterClosedUndrained ==
    /\ printerPc = "select"
    /\ progClosed > 0
    /\ rendered' = <<status>>
    /\ printerPc' = "returned"
    /\ UNCHANGED callVars
    /\ UNCHANGED <<algorithmsFlag, tasksToRun, mainPc, wg, resultsCh, resClosed, status, results,
                   verdict, applied, expired>>

\* case p, ok := <-progress with !ok: the channel is closed and drained;
\* printStatus a last time and return
PrinterClosed ==
    /\ printerPc = "select"
    /\ progressCh = <<>>
    /\ progClosed > 0
    /\ rendered' = <<status>>
    /\ printerPc' = "returned"
    /\ UNCHANGED callVars
    /\ UNCHANGED <<algorithmsFlag, tasksToRun, mainPc, wg, resultsCh, resClosed, status, results,
                   verdict, applied, expired>>

\* case <-ticker.C: printStatus again
PrinterTick ==
    /\ printerPc = "select"
    /\ rendered' = <<status>>
    /\ UNCHANGED callVars
    /\ UNCHANGED <<algorithmsFlag, tasksToRun, mainPc, wg, resultsCh, resClosed, printerPc, status,
                   results, verdict, applied, expired>>

\* a printer that returns on ctx.Done() without printing: a faulty variant
\* that C26 must reject
PrinterCtxDoneNoRender ==
    /\ printerPc = "select"
    /\ ctxDone
    /\ printerPc' = "returned"
    /\ UNCHANGED callVars
    /\ UNCHANGED <<algorithmsFlag, tasksToRun, mainPc, wg, resultsCh, resClosed, status, results,
                   verdict, applied, rendered, expired>>

\* case <-ctx.Done(): printStatus a last time and return
PrinterCtxDone ==
    /\ printerPc = "select"
    /\ ctxDone
    /\ rendered' = <<status>>
    /\ printerPc' = "returned"
    /\ UNCHANGED callVars
    /\ UNCHANGED <<algorithmsFlag, tasksToRun, mainPc, wg, resultsCh, resClosed, status, results,
                   verdict, applied, expired>>

progressPrinter == PrinterRecv \/ PrinterClosed \/ PrinterTick \/ PrinterCtxDone

\* a join that does not wait for the workers: a faulty variant that C7 must
\* reject
MainWaitEarly ==
    /\ mainPc = "wait"
    /\ mainPc' = "closeProgress"
    /\ UNCHANGED callVars
    /\ UNCHANGED <<algorithmsFlag, tasksToRun, wg, resultsCh, resClosed, printerPc, status, results,
                   verdict, expired,
                   applied, rendered>>

\* wg.Wait() returns
MainWait ==
    /\ mainPc = "wait"
    /\ wg = 0
    /\ mainPc' = "closeProgress"
    /\ UNCHANGED callVars
    /\ UNCHANGED <<algorithmsFlag, tasksToRun, wg, resultsCh, resClosed, printerPc, status, results,
                   verdict, expired,
                   applied, rendered>>

\* close(progressAggregatorCh)
MainCloseProgress ==
    /\ mainPc = "closeProgress"
    /\ progClosed' = progClosed + 1
    /\ mainPc' = "closeResults"
    /\ UNCHANGED <<n, sink, ctxErr, pc, loc, slots, cellVal, inPool, acq, rel, ret,
                   sent, progressCh, calls, hist, fl>>
    /\ UNCHANGED <<algorithmsFlag, tasksToRun, wg, resultsCh, resClosed, printerPc, status, results,
                   verdict, expired,
                   applied, rendered>>

\* close(resultsCh)
MainCloseResults ==
    /\ mainPc = "closeResults"
    /\ resClosed' = resClosed + 1
    /\ mainPc' = "waitDisplay"
    /\ UNCHANGED callVars
    /\ UNCHANGED <<algorithmsFlag, tasksToRun, wg, resultsCh, printerPc, status, results, verdict,
                   expired,
                   applied, rendered>>

\* a main that does not wait for the printer: a faulty variant that C27 must
\* reject
MainWaitDisplayEarly ==
    /\ mainPc = "waitDisplay"
    /\ mainPc' = "collect"
    /\ UNCHANGED callVars
    /\ UNCHANGED <<algorithmsFlag, tasksToRun, wg, resultsCh, resClosed, printerPc, status, results,
                   verdict, expired,
                   applied, rendered>>

\* wgDisplay.Wait() returns
MainWaitDisplay ==
    /\ mainPc = "waitDisplay"
    /\ printerPc = "returned"
    /\ mainPc' = "collect"
    /\ UNCHANGED callVars
    /\ UNCHANGED <<algorithmsFlag, tasksToRun, wg, resultsCh, resClosed, printerPc, status, results,
                   verdict, expired,
                   applied, rendered>>

\* a less function that compares the durations only: a faulty variant that
\* C15 must reject
LessByDuration(x, y) == x.duration < y.duration

\* the less function of sort.Slice: successes before failures, then by duration
Less(x, y) ==
    IF x.err = "nil" /\ y.err # "nil" THEN TRUE
    ELSE IF x.err # "nil" /\ y.err = "nil" THEN FALSE
    ELSE x.duration < y.duration

\* sort.Slice(results, less), which is not stable: every arrangement of rs in
\* which no element is less than one before it
Sorted(rs) ==
    {[k \in 1..Len(rs) |-> rs[p[k]]] :
        p \in {q \in [1..Len(rs) -> 1..Len(rs)] :
                 /\ \A i, j \in 1..Len(rs) : i # j => q[i] # q[j]
                 /\ \A i, j \in 1..Len(rs) : i < j => ~Less(rs[q[j]], rs[q[i]])}}

\* a cross-validation that keeps the last success instead of the first and
\* compares nothing: a faulty variant that C8 must reject
CrossValidateNothing(v, r) ==
    IF r.err # "nil" \/ r.isNil THEN v
    ELSE [first |-> r.name, value |-> Undef, count |-> v.count + 1,
          identical |-> v.identical]

\* a round that keeps the first success and counts the others without
\* comparing them: a faulty variant that C17 must reject
CrossValidateOneNoCompare(v, r) ==
    IF r.err # "nil" \/ r.isNil THEN v
    ELSE IF v.first = "none"
    THEN [first |-> r.name, value |-> Value(r), count |-> v.count + 1,
          identical |-> v.identical]
    ELSE [v EXCEPT !.count = @ + 1]

\* one round of the loop over the sorted results: r counts as a success when
\* r.err == nil and r.value != nil; the first one is kept, the others compared
CrossValidateOne(v, r) ==
    IF r.err # "nil" \/ r.isNil THEN v
    ELSE IF v.first = "none"
    THEN [first |-> r.name, value |-> Value(r), count |-> v.count + 1,
          identical |-> v.identical]
    ELSE [v EXCEPT !.count = @ + 1,
                   !.identical = @ /\ (Value(r) = v.value)]

\* the loop run from the last result to the first: a faulty variant that C16
\* must reject
RECURSIVE CrossValidateFromEnd(_, _)
CrossValidateFromEnd(v, rs) ==
    IF rs = <<>> THEN v
    ELSE CrossValidateFromEnd(CrossValidateOne(v, rs[Len(rs)]),
                              SubSeq(rs, 1, Len(rs) - 1))

\* for i, r := range results { ... }
RECURSIVE CrossValidate(_, _)
CrossValidate(v, rs) ==
    IF rs = <<>> THEN v ELSE CrossValidate(CrossValidateOne(v, Head(rs)), Tail(rs))

\* collectAndDisplayResults(ctx, resultsCh, n), then main returns and its
\* deferred cancel() runs
MainCollect ==
    /\ mainPc = "collect"
    /\ resClosed > 0
    /\ \E rs \in Sorted(resultsCh) :
          /\ results' = rs
          /\ verdict' = CrossValidate(NoVerdict, rs)
    /\ resultsCh' = <<>>
    /\ ctxErr' = IF ctxErr = "nil" THEN "canceled" ELSE ctxErr
    /\ mainPc' = "done"
    /\ UNCHANGED <<n, sink, pc, loc, slots, cellVal, inPool, acq, rel, ret, sent,
                   progressCh, progClosed, calls, hist, fl>>
    /\ UNCHANGED <<algorithmsFlag, tasksToRun, wg, resClosed, printerPc, status, expired,
                   applied, rendered>>

main ==
    \/ MainWait \/ MainCloseProgress \/ MainCloseResults \/ MainWaitDisplay
    \/ MainCollect

Next ==
    \/ Deadline
    \/ fibFastDoubling
    \/ fibMatrix
    \/ fibIterative
    \/ fibBinet
    \/ \E w \in Strategies : WorkerResult(w)
    \/ progressPrinter
    \/ main

Spec == InitRun /\ [][Next]_vars

\* The run with what its scheduling guarantees for the printer: the timer of
\* context.WithTimeout fires unless main has returned before, and a select
\* whose ctx.Done() case stays ready takes it in the end.
FairSpec == Spec /\ WF_vars(Deadline) /\ WF_vars(PrinterCtxDone)

----------------------------------------------------------------------------
(* Properties of a single strategy call (SpecCall) *)

Cells == 1..Len(cellVal)

\* C1: each exact strategy (fibFastDoubling, fibMatrix, fibIterative), called
\* with an index n >= 0 and a context that is never cancelled, returns exactly
\* F(n) and no error; in particular the tests' table 0,1,2,7,10,20 ->
\* 0,1,1,13,55,6765.
KnownValues == [k \in {0, 1, 2, 7, 10, 20} |->
                  CASE k = 0 -> 0 [] k = 1 -> 1 [] k = 2 -> 1
                    [] k = 7 -> 13 [] k = 10 -> 55 [] k = 20 -> 6765]

C1_ExactStrategiesReturnFib ==
    \A w \in Exact :
        (pc[w] = "returned" /\ n >= 0 /\ ctxErr = "nil")
            => /\ ret[w].err = "nil"
               /\ ~ret[w].isNil
               /\ ret[w].val = Def(Fib(n))
               /\ n \in DOMAIN KnownValues => ret[w].val = Def(KnownValues[n])

C1_Witness ==
    /\ n = 20
    /\ ctxErr = "nil"
    /\ pc[MX] = "returned"
    /\ ret[MX].val = Def(6765)

\* C2: for every n >= 0 the exact strategies, called with the same n one
\* after another on the same pool, return identical values: any two values
\* returned without error by exact strategies are the same, known integer.
C2_ExactStrategiesAgree ==
    \A x, y \in hist :
        (x.s \in Exact /\ y.s \in Exact) => (IsDef(x.val) /\ x.val = y.val)

C2_Witness ==
    /\ n = 10
    /\ calls = 2
    /\ \E x, y \in hist : x.s = IT /\ y.s = FD /\ x.val = Def(55) /\ y.val = Def(55)

\* C3: for every strategy and every n < 0 the call returns an error and a nil
\* value, and it does so before any arithmetic: no cell is taken from the
\* pool (none is even made) and no progress event is sent.
C3_NegativeIndexRejected ==
    n < 0 =>
        /\ cellVal = <<>>
        /\ progressCh = <<>>
        /\ \A w \in Strategies :
              /\ acq[w] = <<>>
              /\ sent[w] = <<>>
              /\ pc[w] \in {"idle", "entry", "returned"}
              /\ pc[w] = "returned" => (ret[w].err = "invalid" /\ ret[w].isNil)

C3_Witness ==
    /\ n < 0
    /\ sink
    /\ pc[BN] = "returned"
    /\ pc[IT] = "returned"
    /\ ret[BN].err = "invalid"

\* C4: for every strategy and n in {0,1} the call returns the value n and no
\* error, sends exactly one progress event, 100%, when it is given a progress
\* channel (none otherwise), and takes no cell from the pool.
C4_BaseCases ==
    \A w \in Strategies :
        (n \in {0, 1} /\ pc[w] = "returned")
            => /\ ret[w].err = "nil"
               /\ ~ret[w].isNil
               /\ ret[w].val = Def(n)
               /\ sent[w] = IF sink THEN <<Pct100>> ELSE <<>>
               /\ acq[w] = <<>>
               /\ cellVal = <<>>

C4_Witness ==
    /\ n = 1
    /\ sink
    /\ pc[MX] = "returned"
    /\ sent[MX] = <<Pct100>>
    /\ ret[MX].val = Def(1)

\* C10: at the end of a call of fibFastDoubling, fibMatrix (its mat2.mul calls
\* included) or fibIterative, however it ends, every cell the call took from
\* the pool has been put back exactly once per taking: during the call no cell
\* has been put back more often than taken and no cell sits in the pool
\* twice, and at the end every cell has been put back as often as taken.
C10_AcquireReleaseBalanced ==
    \A w \in Exact :
        /\ \A c \in Cells :
              /\ inPool[c] <= 1
              /\ CountIn(rel[w], c) <= CountIn(acq[w], c)
        /\ pc[w] = "returned" =>
              /\ Len(acq[w]) = Len(rel[w])
              /\ \A c \in Cells : CountIn(acq[w], c) = CountIn(rel[w], c)

C10_Witness ==
    /\ pc[MX] = "returned"
    /\ ret[MX].err = "canceled"
    /\ Len(acq[MX]) > 12
    /\ pc[FD] = "returned"
    /\ ret[FD].err = "nil"
    /\ Len(acq[FD]) = 4

----------------------------------------------------------------------------
(* Properties of a run of main (Spec) *)

SendPcs == {"baseSend", "loopSend", "finalSend"}

\* w is at a send on the progress channel, whose buffer is full
BlockedOnProgress(w) == pc[w] \in SendPcs /\ Len(progressCh) >= ProgCap

\* how many of the outcomes rs are the task w's
RECURSIVE OutcomesOf(_, _)
OutcomesOf(rs, w) ==
    IF rs = <<>> THEN 0
    ELSE (IF Head(rs).name = w THEN 1 ELSE 0) + OutcomesOf(Tail(rs), w)

\* the outcomes the completion channel holds, or held when it was read
Outcomes == IF mainPc = "done" THEN results ELSE resultsCh

\* C5: once the deadline has elapsed every worker still returns, delivers its
\* Outcome, and wg.Wait in main completes.  Stated on finite runs: no worker
\* is ever left at a send on a full progress channel after the deadline with
\* the printer gone, since the printer is that channel's only reader and such
\* a worker stays there for ever and main stays at wg.Wait.
C5_NoWorkerBlockedForever ==
    ~ /\ ctxErr = "deadline"
      /\ printerPc = "returned"
      /\ mainPc = "wait"
      /\ \E w \in Selected : BlockedOnProgress(w)

\* C6: when the join has returned and the completion channel is closed, the
\* channel holds exactly one Outcome of each selected task and none of any
\* other; and at no time does it hold two Outcomes of a task, or one of a
\* task whose worker has not exited.
C6_OneOutcomePerTask ==
    /\ \A w \in Strategies :
          /\ OutcomesOf(resultsCh, w) <= 1
          /\ OutcomesOf(resultsCh, w) = 1 => pc[w] = "exited"
    /\ resClosed > 0 =>
          /\ Len(Outcomes) = Len(tasksToRun)
          /\ \A w \in Strategies :
                OutcomesOf(Outcomes, w) = IF w \in Selected THEN 1 ELSE 0

C6_Witness ==
    /\ resClosed = 1
    /\ mainPc = "collect"
    /\ Len(tasksToRun) = 2
    /\ \E i, j \in 1..Len(resultsCh) :
          resultsCh[i].err = "nil" /\ resultsCh[j].err = "deadline"

\* C7: each of the two channels is closed at most once, and once when main is
\* done; a channel is closed only when every worker has exited, so that no
\* worker is ever at a send on a closed channel.
C7_ClosedOnceAfterWorkers ==
    /\ progClosed <= 1
    /\ resClosed <= 1
    /\ mainPc = "done" => (progClosed = 1 /\ resClosed = 1)
    /\ (progClosed > 0 \/ resClosed > 0) =>
          \A w \in Selected : pc[w] = "exited"
    /\ progClosed > 0 => \A w \in Strategies : pc[w] \notin SendPcs
    /\ resClosed > 0 => \A w \in Strategies : pc[w] # "returned"

C7_Witness ==
    /\ progClosed = 1
    /\ resClosed = 1
    /\ mainPc = "done"
    /\ Len(tasksToRun) = 2
    /\ \A w \in Selected : Len(sent[w]) >= 3

\* C8: when the deadline does not elapse during the run, for every n >= 0 the
\* run terminates, every selected task has a successful Outcome with the
\* value F(n), the representative value is F(n) and the agreement flag is
\* true.
C8_RunResult ==
    (mainPc = "done" /\ ctxErr # "deadline") =>
        /\ Len(results) = Len(tasksToRun)
        /\ \A k \in 1..Len(results) :
              /\ results[k].name \in Selected
              /\ results[k].err = "nil"
              /\ ~results[k].isNil
              /\ results[k].val = Def(Fib(n))
        /\ verdict.first \in Selected
        /\ verdict.value = Def(Fib(n))
        /\ verdict.count = Len(tasksToRun)
        /\ verdict.identical

\* the goroutines that can take a step: a worker unless it is at a send on
\* a full channel, the printer when one of its select cases is ready (the
\* ticker aside), main unless it waits for a WaitGroup that is not at zero
WorkerCanStep(w) ==
    /\ pc[w] \notin {"idle", "exited"}
    /\ pc[w] \in SendPcs => CanSendProgress
    /\ pc[w] = "returned" => CanSendResult

PrinterCanStep ==
    printerPc = "select" /\ (progressCh # <<>> \/ progClosed > 0 \/ ctxDone)

MainCanStep ==
    \/ mainPc = "wait" /\ wg = 0
    \/ mainPc \in {"closeProgress", "closeResults", "collect"}
    \/ mainPc = "waitDisplay" /\ printerPc = "returned"

C8_NeverStuck ==
    ctxErr = "nil" =>
        (\E w \in Selected : WorkerCanStep(w)) \/ PrinterCanStep \/ MainCanStep

\* iterations of w's loop that have not begun, for w in or before its loop
ItersLeft(w) ==
    IF pc[w] \in {"entry", "init"}
    THEN CASE w = FD -> BitLen(n)
           [] w = IT -> n - 1
           [] w = MX -> BitLen(n - 1)
           [] w = BN -> BitLen(n)
    ELSE CASE w = FD -> loc[FD].i + (IF pc[FD] = "loop" THEN 1 ELSE 0)
           [] w = IT -> n - loc[IT].i + (IF pc[IT] = "loop" THEN 1 ELSE 0)
           [] w = MX -> BitLen(loc[MX].exp)
           [] w = BN -> BitLen(n) - loc[BN].i - (IF pc[BN] = "loop" THEN 0 ELSE 1)

\* the most steps w can still take
StepsLeft(w) ==
    CASE pc[w] \in {"idle", "exited"} -> 0
      [] pc[w] = "returned" -> 1
      [] pc[w] \in {"baseSend", "finalSend"} -> 2
      [] pc[w] = "loop" -> 2 * ItersLeft(w) + 3
      [] pc[w] = "loopSend" -> 2 * ItersLeft(w) + 4
      [] pc[w] = "init" -> 2 * ItersLeft(w) + 4
      [] pc[w] = "entry" -> IF n <= 1 THEN 3 ELSE 2 * ItersLeft(w) + 5

MainStepsLeft ==
    CASE mainPc = "wait" -> 5
      [] mainPc = "closeProgress" -> 4
      [] mainPc = "closeResults" -> 3
      [] mainPc = "waitDisplay" -> 2
      [] mainPc = "collect" -> 1
      [] OTHER -> 0

\* a bound on the steps the run can still take, the timer's and the
\* printer's receptions included; a tick of the printer's is a step only when
\* it prints what was not printed before
Variant ==
    2 * (StepsLeft(FD) + StepsLeft(MX) + StepsLeft(BN) + StepsLeft(IT))
        + Len(progressCh)
        + (IF printerPc = "select" THEN 1 ELSE 0)
        + (IF printerPc = "select" /\ rendered # <<status>> THEN 1 ELSE 0)
        + MainStepsLeft
        + (IF ctxErr = "nil" THEN 1 ELSE 0)

C8_Advances == Variant' < Variant

C9_ExpiredAllCancelled ==
    (expired /\ mainPc = "done") =>
        /\ \A k \in 1..Len(results) : results[k].err = "deadline" /\ results[k].isNil
        /\ verdict.first = "none"

\* C9 amended: the same for every n >= 2, the indices at which a strategy
\* reaches its loop and so polls the context; and then no task sends a
\* progress event.
C9_ExpiredAllCancelledFrom2 ==
    (expired /\ n >= 2) =>
        /\ \A w \in Strategies : sent[w] = <<>>
        /\ mainPc = "done" =>
              /\ Len(results) = Len(tasksToRun)
              /\ \A k \in 1..Len(results) :
                    results[k].err = "deadline" /\ results[k].isNil
              /\ verdict.first = "none"
              /\ verdict.count = 0

C9_Witness ==
    /\ expired
    /\ n = 2
    /\ mainPc = "done"
    /\ tasksToRun = <<FD, MX>>
    /\ Len(results) = 2
    /\ verdict.first = "none"

----------------------------------------------------------------------------
(* The shared pool under concurrent strategies (Spec) *)

\* the cells the variables of w's invocation point to
Held(w) == {slots[w][s] : s \in DOMAIN slots[w]} \ {0}

\* w is the goroutine that takes the step
Acting(w) == pc'[w] # pc[w] \/ loc'[w] # loc[w] \/ acq'[w] # acq[w]

\* the cells whose content the step changes
Mutated == {c \in Cells : cellVal'[c] # cellVal[c]}

\* no cell is in the pool twice, a held cell is not in the pool, and no cell
\* is held by two invocations
C11_HeldByOne ==
    /\ \A c \in Cells : inPool[c] <= 1
    /\ \A w \in Strategies : \A c \in Held(w) : inPool[c] = 0
    /\ \A w, v \in Strategies : w # v => Held(w) \cap Held(v) = {}

\* a step that changes the content of a cell is a step of an invocation that
\* has taken this cell from the pool, and no other invocation holds the cell
C11_MutatesOwn ==
    \A c \in Mutated :
        \E w \in Strategies :
            /\ Acting(w)
            /\ CountIn(acq'[w], c) > 0
            /\ \A v \in Strategies \ {w} : c \notin Held(v)

\* C11: with several strategies running concurrently on one shared pool, in
\* every interleaving of their acquire, mutate and release steps no cell is
\* held by two invocations at the same time, and no invocation mutates a cell
\* that is in the pool or that another invocation holds.
C11_NoSharedCell == []C11_HeldByOne /\ [][C11_MutatesOwn]_vars

\* two invocations hold cells at the same time, one of them a cell that the
\* other has already put back once
C11_Witness ==
    \E w, v \in Strategies :
        /\ w # v
        /\ pc[w] = "loop" /\ pc[v] = "loop"
        /\ Held(w) # {} /\ Held(v) # {}
        /\ \E c \in Held(w) : CountIn(rel[v], c) > 0

----------------------------------------------------------------------------
(* The returned value and the token, call by call (SpecCall) *)

\* C12: the value a strategy returns is a fresh copy and never one of the
\* pooled cells: the *big.Int of every successful call is no cell of the
\* pool's, and after the call has returned and released its cells, whatever
\* the same or another strategy does later with those cells, reading it
\* still gives the value returned.
C12_ReturnedValueDetached ==
    /\ \A x \in hist : x.ref \notin Cells /\ Value(x) = x.val
    /\ \A w \in Strategies :
          (pc[w] = "returned" /\ ~ret[w].isNil) =>
              (ret[w].ref \notin Cells /\ Value(ret[w]) = ret[w].val)

\* a call that returned a value, and a later call of another strategy that
\* holds a cell of the first call with another content
C12_Witness ==
    \E x \in hist : \E w \in Exact :
        /\ n >= 2
        /\ x.s \in Exact /\ x.s # w
        /\ pc[w] = "loop"
        /\ \E c \in Held(w) :
              /\ CountIn(rel[x.s], c) > 0
              /\ IsDef(cellVal[c])
              /\ cellVal[c] # x.val

\* w is called with its token already cancelled, and n >= 2
PreCancelled(w) == pc[w] = "entry" /\ ctxDone /\ n >= 2

\* w is at the head of its loop with the variables as they were initialised:
\* no iteration has run
LoopUntouched(w) ==
    CASE w = FD -> /\ loc[FD].i = BitLen(n) - 1
                   /\ cellVal[slots[FD].a] = Def(0)
                   /\ cellVal[slots[FD].b] = Def(1)
                   /\ Len(acq[FD]) = 4
      [] w = IT -> /\ loc[IT].i = 2
                   /\ cellVal[slots[IT].a] = Def(0)
                   /\ cellVal[slots[IT].b] = Def(1)
                   /\ Len(acq[IT]) = 3
      [] w = MX -> /\ loc[MX] = [i |-> 0, exp |-> n - 1]
                   /\ cellVal[slots[MX].res_a] = Def(1)
                   /\ cellVal[slots[MX].res_b] = Def(0)
                   /\ cellVal[slots[MX].base_a] = Def(1)
                   /\ cellVal[slots[MX].base_d] = Def(0)
                   /\ Len(acq[MX]) = 12
      [] w = BN -> /\ loc[BN].i = 0
                   /\ fl.phiToN = FSetInt(1, fl.prec)
                   /\ fl.base = BinetPhi(fl.prec)

\* w has sent no progress event and run no iteration, and if it has returned
\* it has returned no value and the token's error
CancelledAtFirstPoll(w) ==
    /\ sent[w] = <<>>
    /\ pc[w] \notin SendPcs
    /\ pc[w] = "loop" => LoopUntouched(w)
    /\ pc[w] = "returned" =>
          (ret[w].isNil /\ ret[w].err = "canceled" /\ Len(rel[w]) = Len(acq[w]))

\* C13: if the token is already cancelled when a strategy is called with
\* n >= 2, the strategy returns a cancellation error and no value at its
\* first poll, having run no loop-body arithmetic and sent no progress event.
\* (Once cancelled the token stays cancelled, so this then holds of every
\* later call too.)
C13_PreCancelledReturnsAtFirstPoll ==
    \A w \in Strategies : [](PreCancelled(w) => []CancelledAtFirstPoll(w))

\* fibMatrix has returned the token's error with a progress channel given,
\* its twelve cells taken and put back, and nothing sent
C13_Witness ==
    /\ n = MaxN
    /\ sink
    /\ pc[MX] = "returned"
    /\ ret[MX].isNil /\ ret[MX].err = "canceled"
    /\ sent[MX] = <<>>
    /\ Len(acq[MX]) = 12 /\ Len(rel[MX]) = 12

\* w is at the head of its loop and the loop condition holds: an iteration
\* is about to begin
IterationPending(w) ==
    /\ pc[w] = "loop"
    /\ CASE w = FD -> loc[FD].i >= 0
         [] w = IT -> loc[IT].i <= n
         [] w = MX -> loc[MX].exp > 0
         [] w = BN -> loc[BN].i < BitLen(n)

\* the step is w's return of the token's error, with no value, nothing
\* computed and nothing sent
ReturnsCancelled(w) ==
    /\ pc'[w] = "returned"
    /\ ret'[w].isNil
    /\ ret'[w].err = ctxErr
    /\ \A c \in Held(w) : cellVal'[c] = cellVal[c]
    /\ acq'[w] = acq[w]
    /\ sent'[w] = sent[w]

\* with the token cancelled, a strategy about to begin an iteration either
\* does not move or returns the cancellation
C14_PollStep ==
    \A w \in Strategies :
        (IterationPending(w) /\ ctxDone) =>
            \/ (~Acting(w) /\ \A c \in Held(w) : cellVal'[c] = cellVal[c])
            \/ ReturnsCancelled(w)

\* C14: each of the four strategies polls the token at the start of every
\* outer loop iteration: once the token is cancelled a strategy never begins
\* the arithmetic of a further iteration, and its next poll returns a
\* cancellation error with no value.
C14_PollsEveryIteration == [][C14_PollStep]_vars

\* fibBinet returned the cancellation after at least two iterations
C14_Witness ==
    /\ n = MaxN
    /\ sink
    /\ pc[BN] = "returned"
    /\ ret[BN].isNil /\ ret[BN].err = "canceled"
    /\ Len(sent[BN]) >= 2

----------------------------------------------------------------------------
(* collectAndDisplayResults on any results (SpecCollect): main is about to  *)
(* call it, the channel closed and holding one result per task, the        *)
(* results and the order of their arrival drawn freely.                     *)

\* what a worker can have sent: a value and no error, or no value and the
\* context's error, with the duration measured
OutcomeKinds ==
    {[isNil |-> FALSE, val |-> Def(x), ref |-> 0, err |-> "nil", duration |-> d] :
        x \in 1..MaxVal, d \in 1..MaxDur}
    \cup
    {[isNil |-> TRUE, val |-> Undef, ref |-> 0, err |-> "deadline", duration |-> d] :
        d \in 1..MaxDur}

\* the orders in which the tasks of the set S can have sent their results
ArrivalOrders(S) ==
    {q \in [1..Cardinality(S) -> S] :
        \A i, j \in 1..Cardinality(S) : i # j => q[i] # q[j]}

CollectTaskLists ==
    {SelectSeq(DefaultOrder, LAMBDA x : x \in S) :
        S \in {T \in SUBSET Strategies : Cardinality(T) \in 1..CollectTasks}}

\* the result of task w with outcome o
ResultOf(w, o) ==
    [name |-> w, isNil |-> o.isNil, val |-> o.val, ref |-> o.ref,
     duration |-> o.duration, err |-> o.err]

InitCollect ==
    /\ n = 0
    /\ sink = TRUE
    /\ tasksToRun \in CollectTaskLists
    /\ algorithmsFlag = FlagNaming(tasksToRun)
    /\ \E f \in [Selected -> OutcomeKinds] :
       \E q \in ArrivalOrders(Selected) :
          /\ resultsCh = [k \in 1..Len(tasksToRun) |-> ResultOf(q[k], f[q[k]])]
          /\ ctxErr = IF \E w \in Selected : f[w].err # "nil" THEN "deadline" ELSE "nil"
    /\ expired = FALSE
    /\ pc = [w \in Strategies |-> IF w \in Selected THEN "exited" ELSE "idle"]
    /\ loc = [w \in Strategies |-> NoLoc]
    /\ slots = [w \in Strategies |-> NoSlots(w)]
    /\ cellVal = <<>>
    /\ inPool = <<>>
    /\ acq = [w \in Strategies |-> <<>>]
    /\ rel = [w \in Strategies |-> <<>>]
    /\ ret = [w \in Strategies |-> NoRet]
    /\ sent = [w \in Strategies |-> <<>>]
    /\ progressCh = <<>>
    /\ progClosed = 1
    /\ calls = 0
    /\ hist = {}
    /\ fl = NoFl
    /\ mainPc = "collect"
    /\ wg = 0
    /\ resClosed = 1
    /\ printerPc = "returned"
    /\ status = [w \in Selected |-> Pct0]
    /\ applied = [w \in Selected |-> <<>>]
    /\ rendered = <<status>>
    /\ results = <<>>
    /\ verdict = NoVerdict

SpecCollect == InitCollect /\ [][MainCollect]_vars

\* closing lines that take a single success for validated: a faulty variant
\* that C18 must reject
ReportValidatesOne(v) ==
    IF v.first # "none"
    THEN IF v.identical THEN "identical" ELSE "discrepancy"
    ELSE "no success"

\* the closing lines of collectAndDisplayResults: the winner and whether the
\* valid results are identical, or that only one algorithm succeeded, or
\* that none did
Report(v) ==
    IF v.first # "none"
    THEN IF v.count > 1
         THEN IF v.identical THEN "identical" ELSE "discrepancy"
         ELSE "one success"
    ELSE "no success"

----------------------------------------------------------------------------
(* Properties of collectAndDisplayResults (SpecCollect) *)

\* the positions of the successful results in rs
Successes(rs) == {k \in 1..Len(rs) : rs[k].err = "nil" /\ ~rs[k].isNil}

\* C15: in the list collectAndDisplayResults produces, for every set of
\* Outcomes, every successful Outcome precedes every failed one, and within
\* the successful group and within the failed group the durations ascend;
\* the list holds each task's Outcome once.
C15_SuccessesFirstThenDuration ==
    mainPc = "done" =>
        /\ Len(results) = Len(tasksToRun)
        /\ \A w \in Selected : OutcomesOf(results, w) = 1
        /\ \A i, j \in 1..Len(results) :
              i < j =>
                  /\ ~(results[i].err # "nil" /\ results[j].err = "nil")
                  /\ ((results[i].err = "nil") = (results[j].err = "nil")) =>
                        results[i].duration <= results[j].duration

C15_Witness ==
    /\ mainPc = "done"
    /\ Len(results) = 3
    /\ results[1].err = "nil" /\ results[1].duration = 1 /\ results[1].name = IT
    /\ results[2].err = "nil" /\ results[2].duration = 2 /\ results[2].name = FD
    /\ results[3].err # "nil" /\ results[3].duration = 1 /\ results[3].name = MX

\* C16: whenever at least one Outcome is successful, the representative is
\* the first successful Outcome of the sorted list, a successful Outcome
\* whose duration is the least among the successful ones.
C16_RepresentativeIsFastestSuccess ==
    (mainPc = "done" /\ Successes(results) # {}) =>
        /\ verdict.first = results[Min(Successes(results))].name
        /\ verdict.value = Value(results[Min(Successes(results))])
        /\ \A k \in Successes(results) :
              results[Min(Successes(results))].duration <= results[k].duration

C16_Witness ==
    /\ mainPc = "done"
    /\ Len(results) = 3
    /\ verdict.first = BN
    /\ \E i, j, k \in 1..3 :
          /\ results[i].name = BN /\ results[i].err = "nil" /\ results[i].duration = 1
          /\ results[j].name = FD /\ results[j].err = "nil" /\ results[j].duration = 2
          /\ results[k].name = IT /\ results[k].err # "nil" /\ results[k].duration = 1

\* C17: with two or more successful Outcomes, agreement is reported if and
\* only if the value of every successful Outcome equals the representative's,
\* and a mismatch if and only if two successful Outcomes differ, whatever the
\* arrival order and the durations; a majority decides nothing.
C17_AgreementIffAllEqual ==
    (mainPc = "done" /\ Cardinality(Successes(results)) >= 2) =>
        /\ verdict.count = Cardinality(Successes(results))
        /\ Report(verdict) \in {"identical", "discrepancy"}
        /\ Report(verdict) = "identical" <=>
              \A k \in Successes(results) : Value(results[k]) = verdict.value
        /\ Report(verdict) = "discrepancy" <=>
              \E j, k \in Successes(results) : Value(results[j]) # Value(results[k])

\* three successes, the two slower ones equal and the representative alone
\* with its value
C17_Witness ==
    /\ mainPc = "done"
    /\ Len(results) = 3
    /\ \A k \in 1..3 : results[k].err = "nil"
    /\ results[2].val = results[3].val
    /\ results[1].val # results[2].val
    /\ results[1].duration < results[2].duration
    /\ verdict.first = results[1].name
    /\ Report(verdict) = "discrepancy"

\* C18: if no Outcome is successful there is no representative and total
\* failure is reported; if exactly one is successful it is the
\* representative and cross-validation is reported as inapplicable, neither
\* as agreement nor as mismatch.
C18_NoneOrOneSuccess ==
    mainPc = "done" =>
        /\ Successes(results) = {} =>
              /\ verdict.first = "none"
              /\ verdict.value = Undef
              /\ Report(verdict) = "no success"
        /\ Cardinality(Successes(results)) = 1 =>
              /\ \A k \in Successes(results) :
                    verdict.first = results[k].name /\ verdict.value = Value(results[k])
              /\ Report(verdict) = "one success"

C18_Witness ==
    /\ mainPc = "done"
    /\ Len(results) = 3
    /\ results[1].err = "nil" /\ results[1].duration = 2
    /\ results[2].err # "nil" /\ results[2].duration = 1
    /\ results[3].err # "nil"
    /\ verdict.first = results[1].name
    /\ Report(verdict) = "one success"

\* C19: the presentation order and the representative are a function of the
\* set of Outcomes only, equal durations within a group included.  The lists
\* that some arrival order of the Outcomes in results can lead to are
\* Sorted(results), the same set for every arrival order; so the list
\* produced must be the only one of them, and the representative likewise.
C19_OrderFunctionOfOutcomeSet ==
    mainPc = "done" =>
        /\ Sorted(results) = {results}
        /\ \A rs \in Sorted(results) :
              CrossValidate(NoVerdict, rs).first = verdict.first

\* C20: the Binet strategy is excluded from the exact-equality
\* cross-validation: a successful Binet Outcome whose value differs from the
\* mutually equal values of the exact strategies does not make the
\* reconciler report a mismatch.
C20_BinetExcludedFromValidation ==
    ( /\ mainPc = "done"
      /\ \E k \in Successes(results) : results[k].name \in Exact
      /\ \A j, k \in Successes(results) :
            (results[j].name \in Exact /\ results[k].name \in Exact) =>
                Value(results[j]) = Value(results[k]) )
    => Report(verdict) # "discrepancy"

----------------------------------------------------------------------------
(* The workers of a run, one beside the other (Spec) *)

\* everything of the worker v that a step can change
WorkerState(v) == <<pc[v], loc[v], slots[v], ret[v], sent[v], acq[v], rel[v]>>

\* the step leaves the worker v as it is: its position, its variables, the
\* cells it holds, what it has returned and sent
LeavesAlone(v) ==
    /\ WorkerState(v)' = WorkerState(v)
    /\ \A c \in Held(v) : cellVal'[c] = cellVal[c] /\ inPool'[c] = inPool[c]

\* the step is w's strategy returning an error
FailsNow(w) == pc[w] # "returned" /\ pc'[w] = "returned" /\ ret'[w].err # "nil"

\* the step is the worker w sending the failure its strategy returned
SendsFailure(w) == pc[w] = "returned" /\ pc'[w] = "exited" /\ ret[w].err # "nil"

\* a failing step of w changes neither the token nor a sibling, and adds to
\* the results channel at most w's own result, behind the others
C21_FailureFrame ==
    \A w \in Strategies :
        /\ FailsNow(w) =>
              /\ ctxErr' = ctxErr
              /\ resultsCh' = resultsCh
              /\ wg' = wg
              /\ \A v \in Strategies \ {w} : LeavesAlone(v)
        /\ SendsFailure(w) =>
              /\ ctxErr' = ctxErr
              /\ Len(resultsCh') = Len(resultsCh) + 1
              /\ SubSeq(resultsCh', 1, Len(resultsCh)) = resultsCh
              /\ resultsCh'[Len(resultsCh')].name = w
              /\ resultsCh'[Len(resultsCh')].err = ret[w].err
              /\ \A v \in Strategies \ {w} : LeavesAlone(v)

\* every result in the channel is what its own task's strategy returned
C21_OutcomesOwn ==
    \A k \in 1..Len(resultsCh) :
        /\ resultsCh[k].err = ret[resultsCh[k].name].err
        /\ resultsCh[k].isNil = ret[resultsCh[k].name].isNil
        /\ resultsCh[k].val = ret[resultsCh[k].name].val

\* C21: a failure of one worker (the error its strategy returns) changes that
\* worker's Outcome only: the step that fails and the step that reports the
\* failure leave the shared token, every sibling worker and the siblings'
\* Outcomes as they are, and every Outcome is its own worker's.
C21_FailureConfined == []C21_OutcomesOwn /\ [][C21_FailureFrame]_vars

\* one worker has failed and reported, and its sibling, which was still
\* running, has reported a value after it
C21_Witness ==
    /\ ~expired
    /\ n = RunMaxN
    /\ Len(resultsCh) = 2
    /\ resultsCh[1].err = "deadline" /\ resultsCh[1].isNil
    /\ resultsCh[2].err = "nil" /\ resultsCh[2].val = Def(Fib(n))

----------------------------------------------------------------------------
(* The progress events of a call (SpecCall) *)

\* the percentages ps lie in [0,100] and none is less than one before it
NonDecreasingPcts(ps) ==
    /\ \A k \in 1..Len(ps) : PctLeq(Pct0, ps[k]) /\ PctLeq(ps[k], Pct100)
    /\ \A j, k \in 1..Len(ps) : j < k => PctLeq(ps[j], ps[k])

\* C22: for every strategy and every n >= 0, the percentages of the progress
\* events sent during one call all lie in [0,100] and are non-decreasing in
\* the order sent, at whatever iteration the call ends (by its end or by a
\* cancellation).
C22_ProgressMonotone ==
    \A w \in Strategies : n >= 0 => NonDecreasingPcts(sent[w])

\* fibIterative has sent an event after each of its n-1 iterations, the first
\* at 1/(n-1), and the final one; fibMatrix was cancelled after two events
C22_Witness ==
    /\ n = MaxN
    /\ pc[IT] = "returned"
    /\ Len(sent[IT]) = MaxN
    /\ sent[IT][1] = Pct(1, MaxN - 1)
    /\ sent[IT][MaxN] = Pct100
    /\ pc[MX] = "returned"
    /\ ret[MX].err = "canceled"
    /\ Len(sent[MX]) = 2

\* a call of w that was given a progress channel and returned a value has
\* sent 100% as its last event
C23_LastIsHundred ==
    \A w \in Strategies :
        (pc[w] = "returned" /\ ret[w].err = "nil" /\ sink) =>
            (sent[w] # <<>> /\ sent[w][Len(sent[w])] = Pct100)

\* the step in which w sees the cancellation is its return and sends
\* nothing, and a call that has returned sends nothing
C23_SilentStep ==
    \A w \in Strategies :
        /\ (pc[w] # "returned" /\ pc'[w] = "returned" /\ ret'[w].err = "canceled") =>
              (ctxDone /\ sent'[w] = sent[w] /\ progressCh' = progressCh)
        /\ (pc[w] = "returned" /\ pc'[w] = "returned") => sent'[w] = sent[w]

\* C23: for every strategy called with a progress sink, a call that returns a
\* value has sent a 100% progress event as its last event before returning,
\* and a call that returns a cancellation error sends no event after it has
\* observed the cancellation.
C23_FinalEvent == []C23_LastIsHundred /\ [][C23_SilentStep]_vars

\* fibBinet returned a value, its last event 100%; fibFastDoubling then
\* returned the cancellation, its last event below 100%
C23_Witness ==
    /\ n = MaxN
    /\ sink
    /\ pc[BN] = "returned" /\ ret[BN].err = "nil"
    /\ Len(sent[BN]) >= 2
    /\ sent[BN][Len(sent[BN])] = Pct100
    /\ pc[FD] = "returned" /\ ret[FD].err = "canceled"
    /\ sent[FD] # <<>>
    /\ sent[FD][Len(sent[FD])] # Pct100

----------------------------------------------------------------------------
(* progressPrinter in a run of main (Spec) *)

\* C24 as claimed: no progress event is dropped: in every run, every event a
\* worker has sent on the progress channel has been applied to the printer's
\* status map when the printer has terminated.
C24_NoEventDropped ==
    printerPc = "returned" => \A w \in Selected : applied[w] = sent[w]

\* C24 amended: the same in every run whose deadline has not fired: the
\* printer then terminates by the closed and drained channel only, after
\* every worker has exited.  (Once the deadline has fired the printer returns
\* on ctx.Done(), whatever the channel holds and the workers still send.)
C24_NoEventDroppedBeforeDeadline ==
    (printerPc = "returned" /\ ctxErr # "deadline") =>
        /\ \A w \in Selected : applied[w] = sent[w] /\ pc[w] = "exited"
        /\ progressCh = <<>>
        /\ progClosed = 1

\* a finished run of two tasks without deadline, three events or more of
\* each applied
C24_Witness ==
    /\ mainPc = "done"
    /\ ctxErr = "canceled"
    /\ printerPc = "returned"
    /\ Len(tasksToRun) = 2
    /\ \A w \in Selected : Len(sent[w]) >= 3 /\ applied[w] = sent[w]

\* the percentages of the events of task w in the channel ch, in order
RECURSIVE PctsOf(_, _)
PctsOf(ch, w) ==
    IF ch = <<>> THEN <<>>
    ELSE (IF Head(ch).name = w THEN <<Head(ch).pct>> ELSE <<>>) \o PctsOf(Tail(ch), w)

\* what the printer has applied of a task's events, followed by those of its
\* events that wait in the channel, is what the task has sent, in the order
\* sent; and the status of a task is its event applied last, or 0
C25_ArrivalOrder ==
    \A w \in Selected :
        /\ applied[w] \o PctsOf(progressCh, w) = sent[w]
        /\ status[w] = IF applied[w] = <<>> THEN Pct0
                       ELSE applied[w][Len(applied[w])]

\* no step lowers the status of a task
C25_StatusStep == \A w \in Selected : PctLeq(status[w], status'[w])

\* C25: the multiplexer applies the progress events in the order in which
\* they arrive on the channel, so that for every task the last-known
\* percentage it holds starts at 0 and never decreases during a run, however
\* the sends of the concurrent workers interleave.
C25_StatusNeverDecreases ==
    /\ \A w \in Selected : status[w] = Pct0
    /\ []C25_ArrivalOrder
    /\ [][C25_StatusStep]_vars

\* two workers under way, one task's status strictly between 0 and 100, the
\* other's at 100, and events of both waiting in the channel
C25_Witness ==
    \E w, v \in Selected :
        /\ w # v
        /\ status[w] # Pct0 /\ status[w] # Pct100
        /\ status[v] = Pct100
        /\ PctsOf(progressCh, w) # <<>>
        /\ PctsOf(progressCh, v) # <<>>
        /\ printerPc = "select"

\* the printer has returned only with the channel closed and drained or
\* with the token cancelled, and what it printed last is its final status
C26_FinalRender ==
    printerPc = "returned" =>
        /\ rendered = <<status>>
        /\ ctxDone \/ (progClosed = 1 /\ progressCh = <<>>)

\* C26: in every run the multiplexer (progressPrinter) terminates in the end,
\* either after its input channel was closed by main or after the run's
\* cancellation or deadline signal fired, in each case after one final
\* render.
C26_PrinterTerminates == []C26_FinalRender /\ <>(printerPc = "returned")

\* the printer returned on the deadline, the channel neither closed nor
\* empty, its final status printed
C26_Witness ==
    /\ printerPc = "returned"
    /\ ctxErr = "deadline"
    /\ progClosed = 0
    /\ progressCh # <<>>
    /\ rendered = <<status>>
    /\ \E w \in Selected : status[w] # Pct0

----------------------------------------------------------------------------
(* The order of main's steps (Spec) *)

\* every worker has exited, both channels are closed and the printer has
\* returned
AllJoined ==
    /\ \A w \in Selected : pc[w] = "exited"
    /\ wg = 0
    /\ progClosed = 1
    /\ resClosed = 1
    /\ printerPc = "returned"

\* while collectAndDisplayResults is to run or has run, all is joined; before
\* that it has read nothing
C27_JoinedBeforeCollect ==
    /\ mainPc \in {"collect", "done"} => AllJoined
    /\ mainPc \notin {"collect", "done"} => (results = <<>> /\ verdict = NoVerdict)

\* a step that reads a result is taken with all joined and the channel
\* holding the result of every task
C27_CollectStep ==
    (results' # results \/ verdict' # verdict) =>
        /\ AllJoined
        /\ mainPc = "collect"
        /\ Len(resultsCh) = Len(tasksToRun)

\* C27: the reconciler (collectAndDisplayResults) starts only after all
\* workers have exited, both channels have been closed and the multiplexer
\* has terminated; in no interleaving does it read an Outcome while a worker
\* is still running.
C27_CollectAfterJoin == []C27_JoinedBeforeCollect /\ [][C27_CollectStep]_vars

\* main is about to call collectAndDisplayResults on the results of two
\* tasks, the deadline having fired during the run
C27_Witness ==
    /\ mainPc = "collect"
    /\ ~expired
    /\ ctxErr = "deadline"
    /\ Len(tasksToRun) = 2
    /\ Len(resultsCh) = 2
    /\ printerPc = "returned"

----------------------------------------------------------------------------
(* Values, call after call (SpecCall) *)

\* C28: calling an exact strategy twice with the same n yields the same value
\* both times, whether the pool is fresh or holds cells with arbitrary
\* contents left by earlier calls of any strategy.  (A cell that comes out of
\* the pool has a content the taker does not know; a value that depended on
\* it would not be known either.)
C28_ValueIndependentOfPool ==
    \A w \in Exact :
        (pc[w] = "returned" /\ ret[w].err = "nil") =>
            /\ IsDef(ret[w].val)
            /\ ret[w].val = Def(Fib(n))
            /\ \A x \in hist : x.s \in Exact => x.val = ret[w].val
            /\ Cardinality({x \in hist : x.s = w}) = 1

\* fibFastDoubling called twice and no other strategy: the second call has
\* taken the four cells the first one left, and returned the same value
C28_Witness ==
    /\ n = MaxN
    /\ calls = 2
    /\ \A w \in Strategies \ {FD} : pc[w] = "idle"
    /\ pc[FD] = "returned"
    /\ ret[FD].val = Def(Fib(MaxN))
    /\ Len(cellVal) = 4
    /\ Len(acq[FD]) = 4

\* C29: for n in the table of known values (0,1,2,7,10,20) fibBinet returns
\* exactly F(n) and no error: phi^n / sqrt(5) + 0.5 computed in big.Float at
\* the precision the code chooses, truncated toward zero, is the exact
\* integer.
C29_BinetKnownValues ==
    (pc[BN] = "returned" /\ n \in DOMAIN KnownValues) =>
        /\ ctxErr = "nil" => ret[BN].err = "nil"
        /\ ret[BN].err = "nil" =>
              /\ ~ret[BN].isNil
              /\ ret[BN].val = Def(KnownValues[n])
              /\ ret[BN].val = Def(Fib(n))

\* fibBinet has returned 13 for n = 7, through its loop of three iterations
C29_Witness ==
    /\ n = 7
    /\ sink
    /\ pc[BN] = "returned"
    /\ ret[BN].err = "nil"
    /\ ret[BN].val = Def(13)
    /\ Len(sent[BN]) = 4

----------------------------------------------------------------------------
(* The loop of fibFastDoubling (SpecCall) *)

\* the number of bits of n the loop has processed, and the number those
\* most significant bits form
FDBitsDone ==
    IF pc[FD] = "loopSend" THEN BitLen(n) - loc[FD].i ELSE BitLen(n) - 1 - loc[FD].i

FDPrefix == n \div Pow2(BitLen(n) - FDBitsDone)

\* C30: in fibFastDoubling with n >= 2, after each loop iteration, the k most
\* significant bits of n processed, the pair (a, b) is (F(m), F(m+1)) with m
\* the number those k bits form; after the last iteration a = F(n); and the
\* intermediate value 2b - a of every iteration is non-negative.
C30_FastDoublingLoop ==
    (n >= 2 /\ pc[FD] \in {"loop", "loopSend", "finalSend"}) =>
        /\ FDBitsDone \in 0..BitLen(n)
        /\ cellVal[slots[FD].a] = Def(Fib(FDPrefix))
        /\ cellVal[slots[FD].b] = Def(Fib(FDPrefix + 1))
        /\ FDBitsDone = BitLen(n) => cellVal[slots[FD].a] = Def(Fib(n))
        /\ (pc[FD] = "loop" /\ loc[FD].i >= 0) =>
              /\ IsDef(FDTwoBMinusA(cellVal, slots[FD]))
              /\ FDTwoBMinusA(cellVal, slots[FD])[1] >= 0

\* n = 20 = 10100b with its three upper bits processed: (a, b) = (F(5), F(6))
\* and the next iteration's 2b - a = 11
C30_Witness ==
    /\ n = 20
    /\ pc[FD] = "loop"
    /\ loc[FD].i = 1
    /\ FDPrefix = 5
    /\ cellVal[slots[FD].a] = Def(5)
    /\ cellVal[slots[FD].b] = Def(8)
    /\ FDTwoBMinusA(cellVal, slots[FD]) = Def(11)

----------------------------------------------------------------------------
(* The number of iterations of fibFastDoubling (SpecCall) *)

\* the least k with 2^k >= x, for x >= 1
CeilLog2(x) == Min({k \in 0..x : Pow2(k) >= x})

\* the loop of fibFastDoubling has ended, and after k iterations: with a
\* progress channel a completed call has sent one event an iteration and the
\* final one
FDLoopEndedAfter(k) ==
    /\ (pc[FD] = "finalSend" \/ (pc[FD] = "loop" /\ loc[FD].i < 0)) =>
          FDBitsDone = k
    /\ (sink /\ pc[FD] = "returned" /\ ret[FD].err = "nil") =>
          Len(sent[FD]) = k + 1

\* C31, as stated: for every n >= 2 and an uncancelled token, fibFastDoubling
\* performs exactly ceil(log2 n) loop iterations before returning.
C31_IterationsCeilLog2 ==
    n >= 2 => FDLoopEndedAfter(CeilLog2(n))

\* C31, amended: for every n >= 2 and an uncancelled token, fibFastDoubling
\* performs exactly bitlength(n) = floor(log2 n) + 1 loop iterations, one for
\* each bit of n, before returning: ceil(log2 n) when n is not a power of
\* two, one more when it is.
C31_IterationsBitLen ==
    n >= 2 =>
        /\ FDLoopEndedAfter(BitLen(n))
        /\ BitLen(n) = IF n = Pow2(BitLen(n) - 1) THEN CeilLog2(n) + 1
                                                  ELSE CeilLog2(n)

\* n = 16 = 2^4: five iterations, five loop events and the final one, F(16)
C31_Witness ==
    /\ n = 16
    /\ sink
    /\ pc[FD] = "returned"
    /\ ret[FD].err = "nil"
    /\ ret[FD].val = Def(987)
    /\ Len(sent[FD]) = 6
    /\ CeilLog2(n) = 4

----------------------------------------------------------------------------
(* The loop of fibMatrix (SpecCall) *)

\* 2x2 integer matrices <<a, b, c, d>>, their product and their powers
M2Times(x, y) ==
    <<x[1] * y[1] + x[2] * y[3], x[1] * y[2] + x[2] * y[4],
      x[3] * y[1] + x[4] * y[3], x[3] * y[2] + x[4] * y[4]>>

RECURSIVE M2Power(_, _)
M2Power(x, k) == IF k = 0 THEN <<1, 0, 0, 1>> ELSE M2Times(x, M2Power(x, k - 1))

QMatrix == <<1, 1, 1, 0>>

\* the cells of the mat2 m all hold a value in heap h, and the matrix they hold
MatDefined(h, m) == IsDef(h[m.a]) /\ IsDef(h[m.b]) /\ IsDef(h[m.c]) /\ IsDef(h[m.d])
MatValue(h, m) == <<h[m.a][1], h[m.b][1], h[m.c][1], h[m.d][1]>>

\* the number of iterations of fibMatrix's loop that have changed res, base, exp
MXItersDone == IF pc[MX] = "loopSend" THEN loc[MX].i + 1 ELSE loc[MX].i

\* C32: in fibMatrix with n >= 2, every loop iteration keeps res * base^exp
\* equal to Q^(n-1) for Q = [[1,1],[1,0]]; the loop runs exactly
\* bitlength(n-1) iterations, and the returned value is the top-left entry
\* of Q^(n-1), which is F(n).
C32_MatrixLoop ==
    n >= 2 =>
        /\ pc[MX] \in {"loop", "loopSend", "finalSend"} =>
              LET res  == Mat(slots[MX], "res")
                  base == Mat(slots[MX], "base")
                  exp  == loc[MX].exp
              IN  /\ MatDefined(cellVal, res) /\ MatDefined(cellVal, base)
                  /\ M2Times(MatValue(cellVal, res), M2Power(MatValue(cellVal, base), exp))
                        = M2Power(QMatrix, n - 1)
                  /\ exp = (n - 1) \div Pow2(MXItersDone)
                  /\ MXItersDone <= BitLen(n - 1)
                  /\ exp = 0 =>
                        /\ MXItersDone = BitLen(n - 1)
                        /\ cellVal[res.a] = Def(M2Power(QMatrix, n - 1)[1])
        /\ (pc[MX] = "returned" /\ ret[MX].err = "nil") =>
              /\ ~ret[MX].isNil
              /\ ret[MX].val = Def(M2Power(QMatrix, n - 1)[1])
              /\ sink => Len(sent[MX]) = BitLen(n - 1) + 1
        /\ M2Power(QMatrix, n - 1)[1] = Fib(n)

\* n = 20, n - 1 = 10011b after two iterations: res = Q^3, base = Q^4, exp = 4
C32_Witness ==
    /\ n = 20
    /\ pc[MX] = "loop"
    /\ loc[MX].exp = 4
    /\ MXItersDone = 2
    /\ MatValue(cellVal, Mat(slots[MX], "res")) = <<3, 2, 2, 1>>
    /\ MatValue(cellVal, Mat(slots[MX], "base")) = <<5, 3, 3, 2>>

----------------------------------------------------------------------------
(* The straight-line big.Int code of the strategies, statement by statement *)

\* one statement z.f(x, y): f is "Add", "Sub", "Mul", "Lsh" (y the shift) or
\* "Set" (y unused)
Op(f, z, x, y) == [f |-> f, z |-> z, x |-> x, y |-> y]

\* the cells a statement reads
OpReads(op) == IF op.f \in {"Add", "Sub", "Mul"} THEN {op.x, op.y} ELSE {op.x}

\* the heap after a statement
OpApply(h, op) ==
    CASE op.f = "Add" -> ZAdd(h, op.z, op.x, op.y)
      [] op.f = "Sub" -> ZSub(h, op.z, op.x, op.y)
      [] op.f = "Mul" -> ZMul(h, op.z, op.x, op.y)
      [] op.f = "Lsh" -> ZLsh(h, op.z, op.x, op.y)
      [] op.f = "Set" -> ZSet(h, op.z, op.x)

\* the heap after the statements ops, run in order from heap h
RECURSIVE RunOps(_, _)
RunOps(h, ops) == IF ops = <<>> THEN h ELSE RunOps(OpApply(h, Head(ops)), Tail(ops))

\* every statement of ops, run in order from heap h, reads only cells that
\* hold a value
RECURSIVE ReadsDefined(_, _)
ReadsDefined(h, ops) ==
    \/ ops = <<>>
    \/ /\ \A c \in OpReads(Head(ops)) : IsDef(h[c])
       /\ ReadsDefined(OpApply(h, Head(ops)), Tail(ops))

\* the body of fibFastDoubling's loop for a bit of n
FDOps(sl, bit) ==
    <<Op("Lsh", sl.t1, sl.b, 1),
      Op("Sub", sl.t1, sl.t1, sl.a),
      Op("Mul", sl.t2, sl.a, sl.a),
      Op("Mul", sl.a, sl.a, sl.t1),
      Op("Mul", sl.t1, sl.b, sl.b),
      Op("Add", sl.b, sl.t2, sl.t1)>>
    \o (IF bit = 1
        THEN <<Op("Add", sl.t1, sl.a, sl.b),
               Op("Set", sl.a, sl.b, 0),
               Op("Set", sl.b, sl.t1, 0)>>
        ELSE <<>>)

\* the body of fibIterative's loop
ITOps(sl) ==
    <<Op("Add", sl.currentFib, sl.a, sl.b),
      Op("Set", sl.a, sl.b, 0),
      Op("Set", sl.b, sl.currentFib, 0)>>

\* (m *mat2) set(other)
Mat2SetOps(m, other) ==
    <<Op("Set", m.a, other.a, 0), Op("Set", m.b, other.b, 0),
      Op("Set", m.c, other.c, 0), Op("Set", m.d, other.d, 0)>>

\* (m *mat2) mul(m1, m2, pool) after its pool.Get calls; t = <<p1..p8, valA..valD>>
Mat2MulOps(m, m1, m2, t) ==
    <<Op("Mul", t[1], m1.a, m2.a), Op("Mul", t[2], m1.b, m2.c),
      Op("Add", t[9], t[1], t[2]),
      Op("Mul", t[3], m1.a, m2.b), Op("Mul", t[4], m1.b, m2.d),
      Op("Add", t[10], t[3], t[4]),
      Op("Mul", t[5], m1.c, m2.a), Op("Mul", t[6], m1.d, m2.c),
      Op("Add", t[11], t[5], t[6]),
      Op("Mul", t[7], m1.c, m2.b), Op("Mul", t[8], m1.d, m2.d),
      Op("Add", t[12], t[7], t[8]),
      Op("Set", m.a, t[9], 0), Op("Set", m.b, t[10], 0),
      Op("Set", m.c, t[11], 0), Op("Set", m.d, t[12], 0)>>

----------------------------------------------------------------------------
(* mat2.mul on its own (SpecMul): m.mul(m1, m2, pool) called once, on      *)
(* matrices of small entries, the receiver and the operands the same        *)
(* matrix or not, the pool empty or holding twelve used cells.              *)

\* the entries of the operand matrices run over 0 .. MulMaxEntry
MulMaxEntry == 1

\* the cells of the i-th of three matrices laid out on cells 1..12
MatAt(i) == [a |-> 4 * i - 3, b |-> 4 * i - 2, c |-> 4 * i - 1, d |-> 4 * i]

\* the variables tempProduct (the receiver), res (m1) and base (m2) of a
\* call tempProduct.mul(res, base, pool), bound to the matrices r, i1, i2
MulSlots(r, i1, i2) ==
    [res_a  |-> MatAt(i1).a, res_b  |-> MatAt(i1).b,
     res_c  |-> MatAt(i1).c, res_d  |-> MatAt(i1).d,
     base_a |-> MatAt(i2).a, base_b |-> MatAt(i2).b,
     base_c |-> MatAt(i2).c, base_d |-> MatAt(i2).d,
     tmp_a  |-> MatAt(r).a,  tmp_b  |-> MatAt(r).b,
     tmp_c  |-> MatAt(r).c,  tmp_d  |-> MatAt(r).d]

InitMul ==
    /\ n = 0
    /\ sink = FALSE
    /\ ctxErr = "nil"
    /\ pc = [w \in Strategies |-> IF w = MX THEN "mul" ELSE "idle"]
    /\ loc = [w \in Strategies |-> NoLoc]
    /\ \E r \in 1..3, i2 \in 1..2 :
          slots = [w \in Strategies |->
                      IF w = MX THEN MulSlots(r, 1, i2) ELSE NoSlots(w)]
    /\ \E e \in [1..8 -> 0..MulMaxEntry], used \in {0, 12} :
          /\ cellVal = [c \in 1..(12 + used) |->
                           IF c <= 8 THEN Def(e[c])
                           ELSE IF c <= 12 THEN Undef ELSE Def(0)]
          /\ inPool = [c \in 1..(12 + used) |-> IF c <= 12 THEN 0 ELSE 1]
    /\ acq = [w \in Strategies |-> <<>>]
    /\ rel = [w \in Strategies |-> <<>>]
    /\ ret = [w \in Strategies |-> NoRet]
    /\ sent = [w \in Strategies |-> <<>>]
    /\ progressCh = <<>>
    /\ progClosed = 0
    /\ calls = 0
    /\ hist = {}
    /\ fl = NoFl
    /\ algorithmsFlag = <<>>
    /\ tasksToRun = <<>>
    /\ mainPc = "none"
    /\ wg = 0
    /\ resultsCh = <<>>
    /\ resClosed = 0
    /\ printerPc = "none"
    /\ status = <<>>
    /\ applied = <<>>
    /\ rendered = <<>>
    /\ results = <<>>
    /\ verdict = NoVerdict
    /\ expired = FALSE

\* tempProduct.mul(res, base, pool)
Mat2MulCall ==
    /\ pc[MX] = "mul"
    /\ \E r \in Mat2Mul(PoolOf(cellVal, inPool), Mat(slots[MX], "tmp"),
                        Mat(slots[MX], "res"), Mat(slots[MX], "base")) :
          /\ cellVal' = r.P.val
          /\ inPool' = r.P.inp
          /\ acq' = [acq EXCEPT ![MX] = @ \o r.got]
          /\ rel' = [rel EXCEPT ![MX] = @ \o r.put]
    /\ pc' = [pc EXCEPT ![MX] = "mulDone"]
    /\ NoSend
    /\ UNCHANGED <<n, sink, ctxErr, loc, slots, ret, hist, progClosed, calls, fl>>
    /\ UNCHANGED runVars

SpecMul == InitMul /\ [][Mat2MulCall]_vars

\* the cells of a mat2
MatCells(m) == {m.a, m.b, m.c, m.d}

\* in the statements ops, every read of a cell of R comes before every
\* write of a cell of W
ReadsBeforeWrites(ops, R, W) ==
    \A i, j \in 1..Len(ops) :
        (ops[i].z \in W /\ OpReads(ops[j]) \cap R # {}) => j < i

\* what a call of mul does to the heap, the receiver m = tempProduct, the
\* operands m1 = res and m2 = base
C33_MulStep ==
    (pc[MX] = "mul" /\ pc'[MX] = "mulDone") =>
        LET m   == Mat(slots[MX], "tmp")
            m1  == Mat(slots[MX], "res")
            m2  == Mat(slots[MX], "base")
            t   == acq'[MX]
            ops == Mat2MulOps(m, m1, m2, t)
        IN  /\ Len(t) = 12
            /\ \E g \in PoolGetMany(PoolOf(cellVal, inPool), 12) :
                  /\ g[1] = t
                  /\ RunOps(g[2].val, ops) = cellVal'
            /\ ReadsBeforeWrites(ops, MatCells(m1) \cup MatCells(m2), MatCells(m))
            /\ {j \in 1..16 : ops[j].z \in MatCells(m)} = 13..16
            /\ MatCells(m1) \cup MatCells(m2)
                  = UNION {OpReads(ops[j]) \cap (1..12) : j \in 1..12}
            /\ MatDefined(cellVal', m)
            /\ MatValue(cellVal', m)
                  = M2Times(MatValue(cellVal, m1), MatValue(cellVal, m2))
            /\ \A c \in (1..12) \ MatCells(m) : cellVal'[c] = cellVal[c]

\* C33: mat2.mul(m1, m2) reads all eight operand entries and computes the
\* four result entries in temporaries before writing any entry of the
\* receiver, so the receiver ends as the exact product m1*m2 even when the
\* receiver is the same matrix as m1 or m2 or when m1 and m2 are the same
\* matrix; m1 and m2 are left unchanged when distinct from the receiver.
C33_MulAliasSafe == [][C33_MulStep]_vars

\* Q = [[1,1],[1,0]] multiplied into itself by a receiver that is both
\* operands, the temporaries being used cells of the pool: the receiver holds
\* the square [[2,1],[1,1]]
C33_Witness ==
    /\ pc[MX] = "mulDone"
    /\ Mat(slots[MX], "tmp") = Mat(slots[MX], "res")
    /\ Mat(slots[MX], "tmp") = Mat(slots[MX], "base")
    /\ Len(cellVal) = 24
    /\ MatValue(cellVal, Mat(slots[MX], "tmp")) = <<2, 1, 1, 1>>

----------------------------------------------------------------------------
(* The loop of fibIterative (SpecCall) *)

\* the index of the last iteration of fibIterative's loop that has run, 1
\* before the first
ITLastIndex == IF pc[IT] = "loopSend" THEN loc[IT].i ELSE loc[IT].i - 1

\* C34: in fibIterative with n >= 2, after the loop iteration with index i
\* (2 <= i <= n) the cells hold a = F(i-1) and b = F(i); an uncancelled call
\* performs exactly n-1 iterations and returns b = F(n).
C34_IterativeLoop ==
    n >= 2 =>
        /\ pc[IT] \in {"loop", "loopSend", "finalSend"} =>
              /\ ITLastIndex \in 1..n
              /\ cellVal[slots[IT].a] = Def(Fib(ITLastIndex - 1))
              /\ cellVal[slots[IT].b] = Def(Fib(ITLastIndex))
              /\ (pc[IT] = "finalSend" \/ loc[IT].i > n) =>
                    /\ ITLastIndex - 1 = n - 1
                    /\ cellVal[slots[IT].b] = Def(Fib(n))
        /\ (pc[IT] = "returned" /\ ret[IT].err = "nil") =>
              /\ ~ret[IT].isNil
              /\ ret[IT].val = Def(Fib(n))
              /\ sink => Len(sent[IT]) = (n - 1) + 1

\* n = 20 after the iteration with index 10: a = F(9), b = F(10)
C34_Witness ==
    /\ n = 20
    /\ pc[IT] = "loop"
    /\ ITLastIndex = 10
    /\ cellVal[slots[IT].a] = Def(34)
    /\ cellVal[slots[IT].b] = Def(55)

----------------------------------------------------------------------------
(* fibBinet and the pool (SpecCall) *)

\* fibBinet has taken no cell from the pool and given none to it, holds none,
\* and what it returns is no cell of the pool
C35_NoAcquireRelease ==
    /\ acq[BN] = <<>>
    /\ rel[BN] = <<>>
    /\ slots[BN] = NoSlots(BN)
    /\ ret[BN].ref = 0

\* a step taken while a call of fibBinet is under way leaves every cell and
\* the pool as they are
C35_Frame ==
    pc[BN] \notin {"idle", "returned"} =>
        /\ cellVal' = cellVal
        /\ inPool' = inPool
        /\ acq'[BN] = <<>>
        /\ rel'[BN] = <<>>

\* C35: fibBinet never acquires from or releases to the pool, for any n and
\* any outcome: the pool's contents are unchanged by a fibBinet call, and the
\* call behaves the same when given no pool at all (it makes no call on the
\* pool, whatever the pool holds).
C35_BinetLeavesPool == []C35_NoAcquireRelease /\ [][C35_Frame]_vars

\* fibBinet has returned F(12) as the second call, on the pool of four used
\* cells an earlier call left, all four still in it
C35_Witness ==
    /\ n = 12
    /\ pc[BN] = "returned"
    /\ ret[BN].err = "nil"
    /\ ret[BN].val = Def(144)
    /\ calls = 2
    /\ Len(cellVal) = 4
    /\ \A c \in 1..4 : inPool[c] = 1

----------------------------------------------------------------------------
(* Reads of pooled cells (SpecCall).  A cell that comes out of the pool     *)
(* after an earlier use holds no value until the call writes it.            *)

\* m.mul(m1, m2, pool) from pool state P reads only cells that hold a value,
\* whichever cells the pool hands out as temporaries
MulReadsDefined(P, m, m1, m2) ==
    \A g \in PoolGetMany(P, 12) :
        /\ ReadsDefined(g[2].val, Mat2MulOps(m, m1, m2, g[1]))
        /\ RunOps(g[2].val, Mat2MulOps(m, m1, m2, g[1]))
              = Mat2MulBody(g[2].val, m, m1, m2, g[1])

\* the next iteration of fibFastDoubling's loop, and the copy it returns
FDReadsDefined ==
    LET sl == slots[FD]
    IN  IF loc[FD].i >= 0
        THEN /\ ReadsDefined(cellVal, FDOps(sl, Bit(n, loc[FD].i)))
             /\ RunOps(cellVal, FDOps(sl, Bit(n, loc[FD].i)))
                   = FDBody(cellVal, sl, loc[FD].i)
        ELSE IsDef(cellVal[sl.a])

\* the next iteration of fibIterative's loop, and the copy it returns
ITReadsDefined ==
    LET sl == slots[IT]
    IN  IF loc[IT].i <= n
        THEN /\ ReadsDefined(cellVal, ITOps(sl))
             /\ RunOps(cellVal, ITOps(sl)) = ITBody(cellVal, sl)
        ELSE IsDef(cellVal[sl.b])

\* the next iteration of fibMatrix's loop, and the copy it returns
MXReadsDefined ==
    LET sl   == slots[MX]
        exp  == loc[MX].exp
        res  == Mat(sl, "res")
        base == Mat(sl, "base")
        tmp  == Mat(sl, "tmp")
        P    == PoolOf(cellVal, inPool)
    IN  IF exp > 0
        THEN /\ exp % 2 = 1 =>
                  /\ MulReadsDefined(P, tmp, res, base)
                  /\ \A r \in Mat2Mul(P, tmp, res, base) :
                        /\ ReadsDefined(r.P.val, Mat2SetOps(res, tmp))
                        /\ RunOps(r.P.val, Mat2SetOps(res, tmp))
                              = Mat2Set(r.P.val, res, tmp)
             /\ exp \div 2 > 0 =>
                  \A r1 \in MXMultiplyStep(P, sl, exp) :
                      /\ MulReadsDefined(r1.P, tmp, base, base)
                      /\ \A r \in Mat2Mul(r1.P, tmp, base, base) :
                            ReadsDefined(r.P.val, Mat2SetOps(base, tmp))
        ELSE IsDef(cellVal[sl.res_a])

\* C36: within one strategy invocation, no cell acquired from the pool is
\* read before that invocation has written it: the operand cells are set to
\* their initial values on checkout and every scratch cell (t1, t2,
\* tempProduct, the temporaries of mat2.mul, currentFib) is assigned before
\* its first use as an operand.
C36_NoReadBeforeWrite ==
    /\ pc[FD] = "loop" => FDReadsDefined
    /\ pc[IT] = "loop" => ITReadsDefined
    /\ pc[MX] = "loop" => MXReadsDefined
    /\ pc[FD] = "finalSend" => IsDef(cellVal[slots[FD].a])
    /\ pc[IT] = "finalSend" => IsDef(cellVal[slots[IT].b])
    /\ pc[MX] = "finalSend" => IsDef(cellVal[slots[MX].res_a])

\* the second call, fibFastDoubling on the four cells an earlier call used:
\* at the first iteration a and b are set, t1 and t2 hold no value
C36_Witness ==
    /\ n = 20
    /\ calls = 2
    /\ pc[FD] = "loop"
    /\ loc[FD].i = BitLen(n) - 1
    /\ Len(cellVal) = 4
    /\ cellVal[slots[FD].a] = Def(0)
    /\ cellVal[slots[FD].b] = Def(1)
    /\ cellVal[slots[FD].t1] = Undef
    /\ cellVal[slots[FD].t2] = Undef

----------------------------------------------------------------------------
(* What a strategy returns and what the reconciler makes of it (Spec) *)

\* a (value, error) pair is either a value with no error or no value with
\* an error
ValueXorError(r) ==
    /\ r.isNil <=> r.err # "nil"
    /\ r.err \in {"nil", "deadline", "canceled", "invalid"}
    /\ ~r.isNil => IsDef(r.val)

\* the Outcomes the reconciler takes for successful: those without error
ClassifiedSuccessful(rs) == {k \in 1..Len(rs) : rs[k].err = "nil"}

\* C37: every strategy call returns exactly one of a non-nil value with no
\* error or no value with a non-nil error; consequently every Outcome the
\* reconciler classifies as successful carries a value and is counted as a
\* success.
C37_ValueXorError ==
    /\ \A w \in Strategies :
          pc[w] \in {"returned", "exited"} => ValueXorError(ret[w])
    /\ \A k \in 1..Len(resultsCh) : ValueXorError(resultsCh[k])
    /\ \A k \in 1..Len(results) : ValueXorError(results[k])
    /\ mainPc = "done" =>
          /\ \A k \in ClassifiedSuccessful(results) :
                ~results[k].isNil /\ IsDef(results[k].val)
          /\ verdict.count = Cardinality(ClassifiedSuccessful(results))
          /\ ClassifiedSuccessful(results) = Successes(results)

\* two tasks for n = 3: one returned F(3), the other was cancelled by the
\* deadline; the reconciler counts one success
C37_Witness ==
    /\ n = 3
    /\ mainPc = "done"
    /\ Len(results) = 2
    /\ results[1].err = "nil" /\ ~results[1].isNil /\ results[1].val = Def(2)
    /\ results[2].err = "deadline" /\ results[2].isNil
    /\ verdict.count = 1

----------------------------------------------------------------------------
(* The results channel (Spec) *)

\* the workers that have sent their Outcome and left
Exited == {w \in Selected : pc[w] = "exited"}

\* C38: a worker's send of its Outcome on the completion channel never
\* blocks: the number of Outcomes buffered in the channel never exceeds its
\* capacity (the number of launched tasks), although nothing reads the
\* channel until after the join.
C38_ResultSendNeverBlocks ==
    /\ Len(resultsCh) <= Len(tasksToRun)
    /\ \A w \in Selected : pc[w] = "returned" => CanSendResult
    /\ mainPc # "done" => Len(resultsCh) = Cardinality(Exited)
    /\ mainPc = "wait" => resClosed = 0

\* two tasks have both sent their Outcome while main is still in wg.Wait():
\* the channel is full, nothing has been read
C38_Witness ==
    /\ Len(tasksToRun) = 2
    /\ mainPc = "wait"
    /\ Len(resultsCh) = 2
    /\ Exited = Selected
    /\ wg = 0

----------------------------------------------------------------------------
(* The selection of the tasks on its own (SpecSelect): main from the flags *)
(* to tasksToRun, for flag values of a few fields.                         *)

\* a flag value has at most MaxTokens comma-separated fields
MaxTokens == 3

\* the fields tried: each registered name as written, in lower case, and in
\* upper case between spaces; words that name nothing; the empty field
Tokens ==
    UNION {{Token(w, "asis", FALSE), Token(w, "lower", FALSE), Token(w, "upper", TRUE)} :
              w \in Strategies}
    \cup {Token("fast", "lower", FALSE), Token("all", "lower", FALSE),
          Token("all", "upper", FALSE), Token("all", "lower", TRUE),
          Token("", "asis", FALSE)}

Flags == UNION {[1..k -> Tokens] : k \in 1..MaxTokens}

InitSelect ==
    /\ n = 0
    /\ sink = TRUE
    /\ ctxErr = "nil"
    /\ pc = [w \in Strategies |-> "idle"]
    /\ loc = [w \in Strategies |-> NoLoc]
    /\ slots = [w \in Strategies |-> NoSlots(w)]
    /\ cellVal = <<>>
    /\ inPool = <<>>
    /\ acq = [w \in Strategies |-> <<>>]
    /\ rel = [w \in Strategies |-> <<>>]
    /\ ret = [w \in Strategies |-> NoRet]
    /\ sent = [w \in Strategies |-> <<>>]
    /\ progressCh = <<>>
    /\ progClosed = 0
    /\ calls = 0
    /\ hist = {}
    /\ fl = NoFl
    /\ algorithmsFlag \in Flags
    /\ tasksToRun = <<>>
    /\ mainPc = "select"
    /\ wg = 0
    /\ resultsCh = <<>>
    /\ resClosed = 0
    /\ printerPc = "none"
    /\ status = <<>>
    /\ applied = <<>>
    /\ rendered = <<>>
    /\ results = <<>>
    /\ verdict = NoVerdict
    /\ expired = FALSE

SpecSelect == InitSelect /\ [][MainSelect]_vars

\* the registered names the flag value asks for: those a field spells,
\* whatever its case and the spaces around it
Requested(flag) == {r \in Strategies : \E k \in 1..Len(flag) : flag[k].word = r}

====
